---- MODULE Spec2Model ----
(***************************************************************************)
(* ML-DatabaseWorker: the D1-backed repositories (locks, media objects,    *)
(* users) and the route handlers that call them.                           *)
(*                                                                         *)
(* A table is a function from the ids of its rows to the rows.  A nullable *)
(* column holds Null (SQL NULL) or <<v>>; a NOT NULL column holds v.       *)
(* Booleans are stored the way SQLite stores them, as 0 and 1.  A request  *)
(* body (lockData, mediaData, metadata) is a function whose domain is the  *)
(* set of keys present in it: a key outside the domain is `undefined`.     *)
(* created_at is written once at insert and read by no handler modelled    *)
(* here, so rows do not carry it.                                          *)
(***************************************************************************)
EXTENDS Integers, Sequences, FiniteSets, TLC

VARIABLES
    locks,          \* table locks: id -> row
    media,          \* table media_objects: id -> row
    users,          \* table users: id -> row
    mediaSeq,       \* sqlite_sequence of media_objects (AUTOINCREMENT)
    userSeq,        \* sqlite_sequence of users (AUTOINCREMENT)
    resp,           \* outcome of the request handled last
    milestoneLog,   \* per lock, the milestones incrementScanCount has returned
    pc,             \* per in-flight request: its position
    req,            \* per in-flight request: its locals
    rateLimitStore, \* the Map of rateLimit.ts: key -> entry
    now,            \* Date.now(), in ms since the worker instance was loaded
    request         \* the request the app took in last, and whether the middleware let it pass

vars == <<locks, media, users, mediaSeq, userSeq, resp, milestoneLog, pc, req,
          rateLimitStore, now, request>>

\* The state of the middleware, which no repository or route handler touches
limiterVars == <<rateLimitStore, now, request>>

-----------------------------------------------------------------------------
(* Bounds of the model *)

MaxLocks == 2
MaxScan == 26
MaxInFlight == 2
MaxFields == 2
MaxConcScan == 10
MaxMedia == 4
MaxCount == 62
MaxIpCount == 2
MaxNow == 90001
MaxUsers == 3
MaxBulkStart == 1

-----------------------------------------------------------------------------
(* Values *)

Null == <<>>

\* A slot of a request body: Undefined when the key is absent, Def(v) when it
\* is present with the JavaScript value v (v = Null for an explicit null)
Undefined == <<>>

Def(v) == <<v>>

\* JavaScript `v ?? d` on a nullable column value
Coalesce(v, d) == IF v = Null THEN d ELSE v[1]

\* src/constants/milestones.ts is not part of the sources at hand
SCAN_MILESTONES == <<10, 25, 50, 100>>

\* Array.prototype.includes
Includes(arr, x) == \E i \in DOMAIN arr : arr[i] = x

\* A row just inserted by LockRepository.create; columns the INSERT does not
\* name take the column default
NewLockRow(lock_name, album_title, seal_date, user_id) ==
    [ lock_name           |-> lock_name,
      album_title         |-> album_title,
      seal_date           |-> seal_date,
      scan_count          |-> 0,
      last_scan_milestone |-> Null,
      user_id             |-> user_id,
      upgraded_storage    |-> 0 ]

\* What a request came to: the operation, the id it named, how it ended
\* ("ok", the Error thrown, or the HTTP status of a route), the milestone
\* returned, and the number of write statements it issued
NoResp == [op |-> "none", id |-> 0, status |-> "none", milestone |-> Null, writes |-> 0]

Resp(op, id, status, milestone, writes) ==
    [op |-> op, id |-> id, status |-> status, milestone |-> milestone, writes |-> writes]

-----------------------------------------------------------------------------
(* LockRepository *)

\* SELECT * FROM locks WHERE id = ?  -- null when no row
LockFindById(id) == IF id \in DOMAIN locks THEN <<locks[id]>> ELSE Null

\* SELECT * FROM locks ORDER BY id DESC LIMIT 1
GetLastLockId == IF DOMAIN locks = {} THEN 0
                 ELSE CHOOSE i \in DOMAIN locks : \A j \in DOMAIN locks : j <= i

\* Bug variant: the count is written back without the increment
NewScanCount_NoIncrement(existingLock) == existingLock.scan_count

NewScanCount(existingLock) == existingLock.scan_count + 1

CurrentMilestone(existingLock) == Coalesce(existingLock.last_scan_milestone, 0)

\* Bug variant: any count at or past a milestone is taken for a milestone
MilestoneReached_AtLeast(newScanCount, currentMilestone) ==
    IF (\E i \in DOMAIN SCAN_MILESTONES : newScanCount >= SCAN_MILESTONES[i])
       /\ newScanCount > currentMilestone
    THEN <<newScanCount>>
    ELSE Null

MilestoneReached(newScanCount, currentMilestone) ==
    IF Includes(SCAN_MILESTONES, newScanCount) /\ newScanCount > currentMilestone
    THEN <<newScanCount>>
    ELSE Null

MilestoneToPersist(milestoneReached, currentMilestone) ==
    Coalesce(milestoneReached, currentMilestone)

\* Bug variant: the two bound values are swapped
WriteScan_Swapped(table, id, newScanCount, milestoneToPersist) ==
    IF id \in DOMAIN table
    THEN [table EXCEPT ![id].scan_count = milestoneToPersist,
                       ![id].last_scan_milestone = <<newScanCount>>]
    ELSE table

\* UPDATE locks SET scan_count = ?, last_scan_milestone = ? WHERE id = ?
\* Variant: the count is raised in the statement itself
\* (SET scan_count = scan_count + 1)
WriteScan_InStatement(table, id, newScanCount, milestoneToPersist) ==
    IF id \in DOMAIN table
    THEN [table EXCEPT ![id].scan_count = @ + 1,
                       ![id].last_scan_milestone = <<milestoneToPersist>>]
    ELSE table

WriteScan(table, id, newScanCount, milestoneToPersist) ==
    IF id \in DOMAIN table
    THEN [table EXCEPT ![id].scan_count = newScanCount,
                       ![id].last_scan_milestone = <<milestoneToPersist>>]
    ELSE table

LogMilestone(log, id, milestoneReached) ==
    IF milestoneReached = Null THEN log
    ELSE [log EXCEPT ![id] = Append(@, milestoneReached[1])]

\* incrementScanCount(id), run to completion.
\* Variant: the UPDATE that reports failure has been applied all the same
IncrementScanCount_WriteKept(id, writeOk) ==
    /\ id \in DOMAIN locks => locks[id].scan_count < MaxScan
    /\ LET found == LockFindById(id) IN
       IF found = Null
       THEN /\ resp' = Resp("incrementScanCount", id, "NotFound", Null, 0)
            /\ UNCHANGED <<locks, milestoneLog>>
       ELSE LET existingLock == found[1]
                currentMilestone == CurrentMilestone(existingLock)
                newScanCount == NewScanCount(existingLock)
                milestoneReached == MilestoneReached(newScanCount, currentMilestone)
                milestoneToPersist == MilestoneToPersist(milestoneReached, currentMilestone)
            IN /\ locks' = WriteScan(locks, id, newScanCount, milestoneToPersist)
               /\ IF ~writeOk
                  THEN /\ resp' = Resp("incrementScanCount", id, "StorageError", Null, 1)
                       /\ UNCHANGED milestoneLog
                  ELSE /\ resp' = Resp("incrementScanCount", id, "ok", milestoneReached, 1)
                       /\ milestoneLog' = LogMilestone(milestoneLog, id, milestoneReached)
    /\ UNCHANGED <<media, users, mediaSeq, userSeq, pc, req, limiterVars>>

\* incrementScanCount(id), run to completion.  writeOk is result.success of
\* the UPDATE.
IncrementScanCount(id, writeOk) ==
    /\ id \in DOMAIN locks => locks[id].scan_count < MaxScan
    /\ LET found == LockFindById(id) IN
       IF found = Null
       THEN /\ resp' = Resp("incrementScanCount", id, "NotFound", Null, 0)
            /\ UNCHANGED <<locks, milestoneLog>>
       ELSE LET existingLock == found[1]
                currentMilestone == CurrentMilestone(existingLock)
                newScanCount == NewScanCount(existingLock)
                milestoneReached == MilestoneReached(newScanCount, currentMilestone)
                milestoneToPersist == MilestoneToPersist(milestoneReached, currentMilestone)
            IN IF ~writeOk
               THEN /\ resp' = Resp("incrementScanCount", id, "StorageError", Null, 1)
                    /\ UNCHANGED <<locks, milestoneLog>>
               ELSE /\ locks' = WriteScan(locks, id, newScanCount, milestoneToPersist)
                    /\ resp' = Resp("incrementScanCount", id, "ok", milestoneReached, 1)
                    /\ milestoneLog' = LogMilestone(milestoneLog, id, milestoneReached)
    /\ UNCHANGED <<media, users, mediaSeq, userSeq, pc, req, limiterVars>>

\* JavaScript `lockData.k || dflt`: dflt when the key is absent or its value
\* is falsy (null, '', 0)
OrDefault(slot, falsy, dflt) ==
    IF slot = Undefined \/ slot[1] \in falsy THEN dflt ELSE slot[1]

\* AUTOINCREMENT: locks are never deleted by a handler, so the next rowid is
\* one past the highest id
NextLockId == GetLastLockId + 1

\* The row LockRepository.create inserts for lockData
LockCreateRow(lockData) ==
    NewLockRow(
        OrDefault(lockData.lock_name, {""}, "Memory Lock"),
        OrDefault(lockData.album_title, {""}, "Wonderful Memories"),
        OrDefault(lockData.seal_date, {Null, <<"">>}, Null),
        IF lockData.user_id = Undefined \/ lockData.user_id[1] = 0
        THEN Null ELSE <<lockData.user_id[1]>>)

\* LockRepository.create(lockData).  insertOk is result.success of the INSERT.
LockCreate(lockData, insertOk) ==
    /\ Cardinality(DOMAIN locks) < MaxLocks
    /\ LET id == NextLockId
           row == LockCreateRow(lockData)
       IN IF insertOk
          THEN /\ locks' = [i \in DOMAIN locks \cup {id} |->
                              IF i = id THEN row ELSE locks[i]]
               /\ milestoneLog' = [i \in DOMAIN locks \cup {id} |->
                              IF i = id THEN <<>> ELSE milestoneLog[i]]
               /\ resp' = Resp("create", id, "ok", Null, 1)
          ELSE /\ resp' = Resp("create", 0, "StorageError", Null, 1)
               /\ UNCHANGED <<locks, milestoneLog>>
    /\ UNCHANGED <<media, users, mediaSeq, userSeq, pc, req, limiterVars>>

\* The lockData POST /locks/create/:totalLocks pushes for every lock of a
\* batch
BulkLockData ==
    [ lock_name   |-> Def("Memory Lock"),
      album_title |-> Def("Romeo & Juliet"),
      seal_date   |-> Undefined,
      user_id     |-> Undefined ]

-----------------------------------------------------------------------------
(* LockRepository.update *)

\* The keys update() tests, in its order
LockFields == <<"lock_name", "album_title", "seal_date", "user_id", "upgraded_storage">>

\* updateFields, were a key tested for truthiness rather than against
\* undefined: a seal_date of null is passed over
LockUpdateFields_Truthy(lockData) ==
    {LockFields[i] : i \in {j \in DOMAIN LockFields :
        /\ lockData[LockFields[j]] # Undefined
        /\ LockFields[j] = "seal_date" => lockData[LockFields[j]] # Def(Null)}}

\* updateFields: the keys with lockData.k !== undefined
LockUpdateFields(lockData) ==
    {LockFields[i] : i \in {j \in DOMAIN LockFields : lockData[LockFields[j]] # Undefined}}

\* values.push(...): the value bound for key k.  upgraded_storage is bound as
\* `? 1 : 0`; user_id is a number, held by a nullable column; the other
\* values are bound as they come.
LockBoundValue(k, v) ==
    CASE k = "upgraded_storage" -> (IF v THEN 1 ELSE 0)
      [] k = "user_id"          -> <<v>>
      [] OTHER                  -> v

\* UPDATE locks SET <updateFields> WHERE id = ?  on one row
LockSetRow(row, lockData) ==
    [k \in DOMAIN row |->
        IF k \in LockUpdateFields(lockData)
        THEN LockBoundValue(k, lockData[k][1])
        ELSE row[k]]

\* FOREIGN KEY (user_id) REFERENCES users(id): the store refuses a user_id
\* that names no user
LockForeignKeyOk(usersTable, lockData) ==
    lockData.user_id = Undefined \/ lockData.user_id[1] \in DOMAIN usersTable

\* update(id, lockData) without the test of updateFields.length
LockUpdateResult_NoEmptyCheck(table, usersTable, id, lockData, writeOk) ==
    IF ~writeOk \/ (id \in DOMAIN table /\ ~LockForeignKeyOk(usersTable, lockData))
    THEN [table |-> table, status |-> "StorageError", writes |-> 1]
    ELSE IF id \notin DOMAIN table
    THEN [table |-> table, status |-> "NotFound", writes |-> 1]
    ELSE [table |-> [table EXCEPT ![id] = LockSetRow(@, lockData)],
          status |-> "ok", writes |-> 1]

\* Variant: an UPDATE that matches no row inserts the row
LockUpdateResult_Upsert(table, usersTable, id, lockData, writeOk) ==
    IF LockUpdateFields(lockData) = {}
    THEN [table |-> table, status |-> "NoFields", writes |-> 0]
    ELSE IF ~writeOk \/ (id \in DOMAIN table /\ ~LockForeignKeyOk(usersTable, lockData))
    THEN [table |-> table, status |-> "StorageError", writes |-> 1]
    ELSE [table |-> [i \in DOMAIN table \cup {id} |->
                        IF i # id THEN table[i]
                        ELSE LockSetRow(IF i \in DOMAIN table THEN table[i]
                                        ELSE NewLockRow("Memory Lock", "Wonderful Memories",
                                                        Null, Null),
                                        lockData)],
          status |-> "ok", writes |-> 1]

\* update(id, lockData) on the tables given: the locks table after it and the
\* way it ends.  writeOk is result.success of the UPDATE.
LockUpdateResult(table, usersTable, id, lockData, writeOk) ==
    IF LockUpdateFields(lockData) = {}
    THEN [table |-> table, status |-> "NoFields", writes |-> 0]
    ELSE IF ~writeOk \/ (id \in DOMAIN table /\ ~LockForeignKeyOk(usersTable, lockData))
    THEN [table |-> table, status |-> "StorageError", writes |-> 1]
    ELSE IF id \notin DOMAIN table
    THEN [table |-> table, status |-> "NotFound", writes |-> 1]
    ELSE [table |-> [table EXCEPT ![id] = LockSetRow(@, lockData)],
          status |-> "ok", writes |-> 1]

\* LockRepository.update(id, lockData)
LockUpdate(id, lockData, writeOk) ==
    /\ LET r == LockUpdateResult(locks, users, id, lockData, writeOk) IN
          /\ locks' = r.table
          /\ resp' = Resp("lockUpdate", id, r.status, Null, r.writes)
    /\ UNCHANGED <<media, users, mediaSeq, userSeq, milestoneLog, pc, req, limiterVars>>

NoLockData ==
    [ lock_name |-> Undefined, album_title |-> Undefined, seal_date |-> Undefined,
      user_id |-> Undefined, upgraded_storage |-> Undefined ]

\* Boolean(existingLock.seal_date): null and '' are falsy
SealBoolean(seal_date) == seal_date # Null /\ seal_date # <<"">>

\* Boolean(v) of a column SQLite stores as 0 or 1
IntBoolean(v) == v # 0

\* formatDateOnly(new Date())
Today == "2026-11-02"

\* HTTP status of a route that calls update() inside its try block: any
\* Error thrown becomes the 500 envelope
RouteStatus(status) == IF status = "ok" THEN "200" ELSE "500"

\* PATCH /locks/seal
ToggleSeal(lockId, writeOk) ==
    /\ LET existingLock == LockFindById(lockId) IN
       IF existingLock = Null
       THEN /\ resp' = Resp("seal", lockId, "404", Null, 0)
            /\ UNCHANGED locks
       ELSE LET isCurrentlySealed == SealBoolean(existingLock[1].seal_date)
                r == LockUpdateResult(locks, users, lockId,
                        [NoLockData EXCEPT !.seal_date =
                            Def(IF isCurrentlySealed THEN Null ELSE <<Today>>)],
                        writeOk)
            IN /\ locks' = r.table
               /\ resp' = Resp("seal", lockId, RouteStatus(r.status), Null, r.writes)
    /\ UNCHANGED <<media, users, mediaSeq, userSeq, milestoneLog, pc, req, limiterVars>>

\* PATCH /locks/name.  newName is the trimmed name.
RenameLock(lockId, newName, writeOk) ==
    /\ IF newName = ""
       THEN /\ resp' = Resp("name", lockId, "400", Null, 0)
            /\ UNCHANGED locks
       ELSE LET r == LockUpdateResult(locks, users, lockId,
                        [NoLockData EXCEPT !.lock_name = Def(newName)], writeOk)
            IN /\ locks' = r.table
               /\ resp' = Resp("name", lockId, RouteStatus(r.status), Null, r.writes)
    /\ UNCHANGED <<media, users, mediaSeq, userSeq, milestoneLog, pc, req, limiterVars>>

\* POST /locks/connect, after the hashed lock id has been decoded to lockId
ConnectLock(userId, lockId, writeOk) ==
    /\ IF LockFindById(lockId) = Null
       THEN /\ resp' = Resp("connect", lockId, "404", Null, 0)
            /\ UNCHANGED locks
       ELSE IF userId \notin DOMAIN users
       THEN /\ resp' = Resp("connect", lockId, "404", Null, 0)
            /\ UNCHANGED locks
       ELSE LET r == LockUpdateResult(locks, users, lockId,
                        [NoLockData EXCEPT !.user_id = Def(userId)], writeOk)
            IN /\ locks' = r.table
               /\ resp' = Resp("connect", lockId, RouteStatus(r.status), Null, r.writes)
    /\ UNCHANGED <<media, users, mediaSeq, userSeq, milestoneLog, pc, req, limiterVars>>

-----------------------------------------------------------------------------
(* MediaObjectRepository *)

MediaFindById(id) == IF id \in DOMAIN media THEN <<media[id]>> ELSE Null

\* The keys update() tests, in its order
MediaFields ==
    <<"cloudflare_id", "url", "file_name", "media_type", "is_main_picture", "display_order">>

\* updateFields: the keys with mediaData.k !== undefined
MediaUpdateFields(mediaData) ==
    {MediaFields[i] : i \in {j \in DOMAIN MediaFields : mediaData[MediaFields[j]] # Undefined}}

\* The value D1 stores for a bound value: a boolean is stored as 1 or 0
MediaBoundValue(k, v) ==
    CASE k = "is_main_picture" -> (IF v THEN 1 ELSE 0)
      [] OTHER                 -> v

\* An UPDATE that also puts display_order back to its column default
MediaSetRow_DefaultOrder(row, mediaData) ==
    [k \in DOMAIN row |->
        IF k \in MediaUpdateFields(mediaData)
        THEN MediaBoundValue(k, mediaData[k][1])
        ELSE IF k = "display_order" THEN 0 ELSE row[k]]

\* UPDATE media_objects SET <updateFields> WHERE id = ?  on one row
MediaSetRow(row, mediaData) ==
    [k \in DOMAIN row |->
        IF k \in MediaUpdateFields(mediaData)
        THEN MediaBoundValue(k, mediaData[k][1])
        ELSE row[k]]

\* The UPDATE of unsetMainPicture with its lock_id test inverted
UnsetMainPicture_OtherLock(table, lockId) ==
    [i \in DOMAIN table |->
        IF table[i].lock_id # lockId /\ table[i].is_main_picture = 1
        THEN [table[i] EXCEPT !.is_main_picture = 0]
        ELSE table[i]]

\* UPDATE media_objects SET is_main_picture = 0
\*   WHERE lock_id = ? AND is_main_picture = 1
UnsetMainPicture(table, lockId) ==
    [i \in DOMAIN table |->
        IF table[i].lock_id = lockId /\ table[i].is_main_picture = 1
        THEN [table[i] EXCEPT !.is_main_picture = 0]
        ELSE table[i]]

\* mediaData.is_main_picture === true
SetsMainPicture(mediaData) == mediaData.is_main_picture = Def(TRUE)

\* update(id, mediaData), were a failure of the object's own UPDATE to undo
\* the clearing done before it
MediaUpdateResult_RolledBack(table, id, mediaData, fail) ==
    IF id \notin DOMAIN table
    THEN [table |-> table, status |-> "NotFound", writes |-> 0]
    ELSE IF SetsMainPicture(mediaData) /\ fail = "unset"
    THEN [table |-> table, status |-> "StorageError", writes |-> 1]
    ELSE LET cleared == IF SetsMainPicture(mediaData)
                        THEN UnsetMainPicture(table, table[id].lock_id)
                        ELSE table
             unsets == IF SetsMainPicture(mediaData) THEN 1 ELSE 0
         IN IF MediaUpdateFields(mediaData) = {}
            THEN [table |-> cleared, status |-> "NoFields", writes |-> unsets]
            ELSE IF fail = "write"
            THEN [table |-> table, status |-> "StorageError", writes |-> unsets + 1]
            ELSE [table |-> [cleared EXCEPT ![id] = MediaSetRow(@, mediaData)],
                  status |-> "ok", writes |-> unsets + 1]

\* update(id, mediaData) on the table given: the table after it and the way
\* it ends.  fail names the UPDATE whose result.success is false, if any.
MediaUpdateResult(table, id, mediaData, fail) ==
    IF id \notin DOMAIN table
    THEN [table |-> table, status |-> "NotFound", writes |-> 0]
    ELSE IF SetsMainPicture(mediaData) /\ fail = "unset"
    THEN [table |-> table, status |-> "StorageError", writes |-> 1]
    ELSE LET cleared == IF SetsMainPicture(mediaData)
                        THEN UnsetMainPicture(table, table[id].lock_id)
                        ELSE table
             unsets == IF SetsMainPicture(mediaData) THEN 1 ELSE 0
         IN IF MediaUpdateFields(mediaData) = {}
            THEN [table |-> cleared, status |-> "NoFields", writes |-> unsets]
            ELSE IF fail = "write"
            THEN [table |-> cleared, status |-> "StorageError", writes |-> unsets + 1]
            ELSE [table |-> [cleared EXCEPT ![id] = MediaSetRow(@, mediaData)],
                  status |-> "ok", writes |-> unsets + 1]

\* MediaObjectRepository.update(id, mediaData)
MediaUpdate(id, mediaData, fail) ==
    /\ LET r == MediaUpdateResult(media, id, mediaData, fail) IN
          /\ media' = r.table
          /\ resp' = Resp("mediaUpdate", id, r.status, Null, r.writes)
    /\ UNCHANGED <<locks, users, mediaSeq, userSeq, milestoneLog, pc, req, limiterVars>>

\* DELETE FROM media_objects WHERE lock_id = ?
DeleteByLockId(table, lockId) ==
    [i \in {j \in DOMAIN table : table[j].lock_id # lockId} |-> table[i]]

-----------------------------------------------------------------------------
(* UserRepository *)

\* typeof v === 'boolean' of a slot
IsBoolean(slot) == slot # Undefined /\ slot[1] # Null

\* typeof v === 'string' of a slot
IsString(slot) == slot # Undefined /\ slot[1] # Null

\* updates: the columns updateAuthMetadata puts in its SET clause
AuthUpdateFields(metadata) ==
    (IF IsBoolean(metadata.email_verified) THEN {"email_verified"} ELSE {})
    \cup (IF IsBoolean(metadata.phone_verified) THEN {"phone_verified"} ELSE {})
    \cup (IF IsString(metadata.last_login_at) THEN {"last_login_at"} ELSE {})

\* values.push(...): a flag is bound as `? 1 : 0`, last_login_at as it comes
AuthBoundValue(k, v) ==
    CASE k = "last_login_at" -> v
      [] OTHER               -> (IF v[1] THEN 1 ELSE 0)

AuthSetRow(row, metadata) ==
    [k \in DOMAIN row |->
        IF k \in AuthUpdateFields(metadata)
        THEN AuthBoundValue(k, metadata[k][1])
        ELSE row[k]]

\* updateAuthMetadata(userId, metadata) on the table given.  It returns
\* without a statement when no column is named, and reads nothing back.
AuthUpdateResult(table, userId, metadata, writeOk) ==
    IF AuthUpdateFields(metadata) = {}
    THEN [table |-> table, status |-> "ok", writes |-> 0]
    ELSE IF ~writeOk
    THEN [table |-> table, status |-> "StorageError", writes |-> 1]
    ELSE [table |-> IF userId \in DOMAIN table
                    THEN [table EXCEPT ![userId] = AuthSetRow(@, metadata)]
                    ELSE table,
          status |-> "ok", writes |-> 1]

\* UserRepository.updateAuthMetadata(userId, metadata)
UpdateAuthMetadata(userId, metadata, writeOk) ==
    /\ LET r == AuthUpdateResult(users, userId, metadata, writeOk) IN
          /\ users' = r.table
          /\ resp' = Resp("updateAuthMetadata", userId, r.status, Null, r.writes)
    /\ UNCHANGED <<locks, media, mediaSeq, userSeq, milestoneLog, pc, req, limiterVars>>

-----------------------------------------------------------------------------
(* DELETE /users/:userId *)

\* SELECT * FROM locks WHERE user_id = ?  (ids of the rows)
FindAllByUserId(table, userId) == {i \in DOMAIN table : table[i].user_id = <<userId>>}

\* A statement that deletes the user's locks instead of detaching them
ClearUserAssociation_DeleteLocks(table, userId) ==
    [i \in {j \in DOMAIN table : table[j].user_id # <<userId>>} |-> table[i]]

\* UPDATE locks SET user_id = NULL WHERE user_id = ?
ClearUserAssociation(table, userId) ==
    [i \in DOMAIN table |->
        IF table[i].user_id = <<userId>> THEN [table[i] EXCEPT !.user_id = Null]
        ELSE table[i]]

\* DELETE FROM users WHERE id = ?
UserDeleteRow(table, userId) == [i \in DOMAIN table \ {userId} |-> table[i]]

\* The k lowest ids of a set of ids
RECURSIVE LowestIds(_, _)
LowestIds(ids, k) ==
    IF k = 0 \/ ids = {} THEN {}
    ELSE LET lo == CHOOSE i \in ids : \A j \in ids : i <= j
         IN {lo} \cup LowestIds(ids \ {lo}, k - 1)

\* The handler's writes in order: one deleteByLockId per owned lock (when
\* deleteMedia), clearUserAssociation, delete.  okWrites of them succeed; the
\* first to fail throws, and the handler answers 500.
DeleteUser(userId, deleteMedia, okWrites) ==
    /\ IF userId \notin DOMAIN users
       THEN /\ resp' = Resp("deleteUser", userId, "404", Null, 0)
            /\ UNCHANGED <<locks, media, users>>
       ELSE LET owned == FindAllByUserId(locks, userId)
                nMedia == IF deleteMedia THEN Cardinality(owned) ELSE 0
                total == nMedia + 2
                emptied == LowestIds(owned, IF okWrites < nMedia THEN okWrites ELSE nMedia)
            IN /\ okWrites <= total
               /\ media' = [i \in {j \in DOMAIN media : media[j].lock_id \notin emptied}
                               |-> media[i]]
               /\ locks' = IF okWrites > nMedia
                           THEN ClearUserAssociation(locks, userId)
                           ELSE locks
               /\ users' = IF okWrites = total THEN UserDeleteRow(users, userId) ELSE users
               /\ resp' = Resp("deleteUser", userId,
                               IF okWrites = total THEN "200" ELSE "500", Null,
                               IF okWrites = total THEN total ELSE okWrites + 1)
    /\ UNCHANGED <<mediaSeq, userSeq, milestoneLog, pc, req, limiterVars>>

-----------------------------------------------------------------------------
(* Initial states *)

EmptyTable == [i \in {} |-> Null]

\* The requests that can be in flight at once
Slots == 1 .. MaxInFlight

NoReq == [id |-> 0, newScanCount |-> 0, milestoneReached |-> Null, milestoneToPersist |-> 0]

\* The database after schema.sql: no rows
\* No request taken in yet
NoRequest == [method |-> "none", path |-> <<>>, apiKey |-> Undefined, admitted |-> FALSE]

Init ==
    /\ locks = EmptyTable
    /\ media = EmptyTable
    /\ users = EmptyTable
    /\ mediaSeq = 0
    /\ userSeq = 0
    /\ resp = NoResp
    /\ milestoneLog = EmptyTable
    /\ pc = [r \in Slots |-> "idle"]
    /\ req = [r \in Slots |-> NoReq]
    /\ rateLimitStore = EmptyTable
    /\ now = 0
    /\ request = NoRequest

UserRow(name, email, phone_number, auth_provider, provider_id, email_verified, phone_verified) ==
    [ name |-> name, email |-> email, phone_number |-> phone_number,
      auth_provider |-> auth_provider, provider_id |-> provider_id,
      email_verified |-> email_verified, phone_verified |-> phone_verified,
      last_login_at |-> Null ]

MediaRow(lock_id, cloudflare_id, url, file_name, media_type, is_main_picture, display_order) ==
    [ lock_id |-> lock_id, cloudflare_id |-> cloudflare_id, url |-> url,
      file_name |-> file_name, media_type |-> media_type,
      is_main_picture |-> is_main_picture, display_order |-> display_order ]

\* seed.sql, cut down to two users, two locks and three media objects
SeedUsers ==
    <<UserRow(<<"John Doe">>, <<"john.doe@example.com">>, <<"+1234567890">>,
              "email", Null, 1, 1),
      UserRow(<<"Jane Smith">>, <<"jane.smith@example.com">>, Null,
              "google", <<"google_123456">>, 1, 0)>>

SeedLocks ==
    <<[NewLockRow("Anniversary Lock", "Five Years Together", <<"2024-02-14">>, <<1>>)
          EXCEPT !.scan_count = 8],
      [NewLockRow("Family Vacation", "Summer 2024 Memories", Null, <<2>>)
          EXCEPT !.scan_count = 3]>>

SeedMedia ==
    <<MediaRow(1, "cf_img_003", "https://imagedelivery.net/example3.jpg",
               <<"anniversary_dinner.jpg">>, "image/jpeg", 1, 1),
      MediaRow(1, "cf_vid_001", "https://videodelivery.net/example1.mp4",
               <<"wedding_vows.mp4">>, "video/mp4", 0, 2),
      MediaRow(2, "cf_img_004", "https://imagedelivery.net/example4.jpg",
               <<"beach_sunset.jpg">>, "image/jpeg", 1, 1)>>

\* The database after schema.sql and seed.sql
InitSeeded ==
    /\ locks = SeedLocks
    /\ media = SeedMedia
    /\ users = SeedUsers
    /\ mediaSeq = Len(SeedMedia)
    /\ userSeq = Len(SeedUsers)
    /\ resp = NoResp
    /\ milestoneLog = [i \in DOMAIN SeedLocks |-> <<>>]
    /\ pc = [r \in Slots |-> "idle"]
    /\ req = [r \in Slots |-> NoReq]
    /\ rateLimitStore = EmptyTable
    /\ now = 0
    /\ request = NoRequest

-----------------------------------------------------------------------------
(* Specifications *)

LockIdInputs == 1 .. (MaxLocks + 1)

NextScan ==
    \/ \E insertOk \in BOOLEAN : LockCreate(BulkLockData, insertOk)
    \/ \E id \in LockIdInputs, writeOk \in BOOLEAN : IncrementScanCount(id, writeOk)

\* Scans of placeholder locks, one request at a time
SpecScan == Init /\ [][NextScan]_vars

-----------------------------------------------------------------------------
(* Partial updates, one request at a time *)

\* Request bodies naming at most MaxFields keys
LockDataInputs ==
    {d \in [ lock_name        : {Undefined, Def("Our Lock")},
             album_title      : {Undefined, Def("Our Album")},
             seal_date        : {Undefined, Def(Null), Def(<<Today>>)},
             user_id          : {Undefined, Def(2), Def(Len(SeedUsers) + 1)},
             upgraded_storage : {Undefined, Def(TRUE), Def(FALSE)} ] :
        Cardinality(LockUpdateFields(d)) <= MaxFields}

NoMediaData ==
    [ cloudflare_id |-> Undefined, url |-> Undefined, file_name |-> Undefined,
      media_type |-> Undefined, is_main_picture |-> Undefined, display_order |-> Undefined ]

MediaDataInputs ==
    {d \in [ cloudflare_id   : {Undefined, Def("cf_img_009")},
             url             : {Undefined, Def("https://imagedelivery.net/example9.jpg")},
             file_name       : {Undefined, Def(Null), Def(<<"first_dance.jpg">>)},
             media_type      : {Undefined, Def("image/png")},
             is_main_picture : {Undefined, Def(TRUE), Def(FALSE)},
             display_order   : {Undefined, Def(0)} ] :
        Cardinality(MediaUpdateFields(d)) <= MaxFields}

\* The UPDATE statements of update(id, mediaData) that can report failure:
\* unsetMainPicture runs only when the body sets the main picture
FailInputs(mediaData) ==
    IF SetsMainPicture(mediaData) THEN {"none", "unset", "write"} ELSE {"none", "write"}

\* metadata: a flag is absent, null, true or false; last_login_at is absent,
\* null or a timestamp
MetadataInputs ==
    [ email_verified : {Undefined, Def(Null), Def(<<TRUE>>), Def(<<FALSE>>)},
      phone_verified : {Undefined, Def(Null), Def(<<TRUE>>), Def(<<FALSE>>)},
      last_login_at  : {Undefined, Def(Null), Def(<<"2026-11-02T09:00:00.000Z">>)} ]

\* The ids requests name: a row that exists and one that does not
UpdateLockIds == {1, Len(SeedLocks) + 1}
UpdateMediaIds == {2, Len(SeedMedia) + 1}

\* The other media object of lock 1 only has its main-picture flag updated
FlagOnlyMediaId == 1

FlagOnlyInputs == {[NoMediaData EXCEPT !.is_main_picture = Def(b)] : b \in BOOLEAN}
UpdateUserIds == {1, Len(SeedUsers) + 1}

\* Each behaviour sends its updates to one table, the other two staying as
\* seeded
NextUpdate ==
    \/ /\ media = SeedMedia /\ users = SeedUsers
       /\ \E id \in UpdateLockIds, lockData \in LockDataInputs, writeOk \in BOOLEAN :
             LockUpdate(id, lockData, writeOk)
    \/ /\ media = SeedMedia /\ users = SeedUsers
       /\ \E id \in UpdateLockIds, writeOk \in BOOLEAN : ToggleSeal(id, writeOk)
    \/ /\ locks = SeedLocks /\ users = SeedUsers
       /\ \E id \in UpdateMediaIds, mediaData \in MediaDataInputs :
             \E fail \in FailInputs(mediaData) : MediaUpdate(id, mediaData, fail)
    \/ /\ locks = SeedLocks /\ users = SeedUsers
       /\ \E mediaData \in FlagOnlyInputs :
             \E fail \in FailInputs(mediaData) : MediaUpdate(FlagOnlyMediaId, mediaData, fail)
    \/ /\ locks = SeedLocks /\ media = SeedMedia
       /\ \E id \in UpdateUserIds, metadata \in MetadataInputs, writeOk \in BOOLEAN :
             UpdateAuthMetadata(id, metadata, writeOk)

SpecUpdate == InitSeeded /\ [][NextUpdate]_vars

-----------------------------------------------------------------------------
(* Requests in flight together: every await of incrementScanCount is a step *)

\* incrementScanCount up to its UPDATE: findById and the values computed
\* from the row it returned
ScanRead(r, id) ==
    /\ pc[r] = "idle"
    /\ id \in DOMAIN locks => locks[id].scan_count < MaxConcScan
    /\ LET found == LockFindById(id) IN
       IF found = Null
       THEN /\ resp' = Resp("incrementScanCount", id, "NotFound", Null, 0)
            /\ UNCHANGED <<pc, req>>
       ELSE LET existingLock == found[1]
                currentMilestone == CurrentMilestone(existingLock)
                newScanCount == NewScanCount(existingLock)
                milestoneReached == MilestoneReached(newScanCount, currentMilestone)
            IN /\ req' = [req EXCEPT ![r] =
                            [ id |-> id,
                              newScanCount |-> newScanCount,
                              milestoneReached |-> milestoneReached,
                              milestoneToPersist |->
                                  MilestoneToPersist(milestoneReached, currentMilestone) ]]
               /\ pc' = [pc EXCEPT ![r] = "scanWrite"]
               /\ UNCHANGED resp
    /\ UNCHANGED <<locks, media, users, mediaSeq, userSeq, milestoneLog, limiterVars>>

\* incrementScanCount from its UPDATE on: the write, the read back, the return
ScanWrite(r, writeOk) ==
    /\ pc[r] = "scanWrite"
    /\ IF ~writeOk
       THEN /\ resp' = Resp("incrementScanCount", req[r].id, "StorageError", Null, 1)
            /\ UNCHANGED <<locks, milestoneLog>>
       ELSE /\ locks' = WriteScan(locks, req[r].id, req[r].newScanCount,
                                  req[r].milestoneToPersist)
            /\ resp' = Resp("incrementScanCount", req[r].id, "ok",
                            req[r].milestoneReached, 1)
            /\ milestoneLog' = LogMilestone(milestoneLog, req[r].id,
                                            req[r].milestoneReached)
    /\ pc' = [pc EXCEPT ![r] = "idle"]
    /\ req' = [req EXCEPT ![r] = NoReq]
    /\ UNCHANGED <<media, users, mediaSeq, userSeq, limiterVars>>

\* The ids the requests in flight name
ConcLockIds == {1, Len(SeedLocks) + 1}
ConcUserIds == {2, Len(SeedUsers) + 1}

NextConc ==
    \/ \E r \in Slots, id \in ConcLockIds : ScanRead(r, id)
    \/ \E r \in Slots, writeOk \in BOOLEAN : ScanWrite(r, writeOk)
    \/ \E id \in ConcLockIds : ToggleSeal(id, TRUE)
    \/ \E id \in ConcLockIds : RenameLock(id, "Our Lock", TRUE)
    \/ \E userId \in ConcUserIds, lockId \in ConcLockIds : ConnectLock(userId, lockId, TRUE)
    \/ \E userId \in ConcUserIds, okWrites \in 0 .. 2 : DeleteUser(userId, FALSE, okWrites)

SpecConc == InitSeeded /\ [][NextConc]_vars

-----------------------------------------------------------------------------
(* Media requests in flight together: every awaited statement of            *)
(* MediaObjectRepository.create and update is a step                        *)

\* The row create() inserts: its defaults applied to the request body
NewMediaRow(mediaData) ==
    [ lock_id         |-> mediaData.lock_id,
      cloudflare_id   |-> OrDefault(mediaData.cloudflare_id, {""}, ""),
      url             |-> OrDefault(mediaData.url, {""}, ""),
      file_name       |-> OrDefault(mediaData.file_name, {Null, <<"">>}, Null),
      media_type      |-> OrDefault(mediaData.media_type, {""}, ""),
      is_main_picture |-> IF mediaData.is_main_picture = Def(TRUE) THEN 1 ELSE 0,
      display_order   |-> IF mediaData.display_order # Undefined
                          THEN mediaData.display_order[1] ELSE 0 ]

\* INSERT INTO media_objects: the row gets the next AUTOINCREMENT id
InsertMedia(table, seq, row) ==
    [i \in DOMAIN table \cup {seq + 1} |-> IF i = seq + 1 THEN row ELSE table[i]]

\* The locals of a media request in flight
MediaReq(op, id, lock_id, mediaData) ==
    [op |-> op, id |-> id, lock_id |-> lock_id, mediaData |-> mediaData]

\* create(mediaData) up to its first awaited statement: unsetMainPicture when
\* the row is a main picture, the INSERT otherwise
MediaCreateCall(r, mediaData, ok) ==
    /\ pc[r] = "idle"
    /\ mediaSeq < MaxMedia
    /\ mediaData.lock_id \in DOMAIN locks
    /\ LET row == NewMediaRow(mediaData) IN
       IF row.is_main_picture = 1
       THEN IF ok
            THEN /\ media' = UnsetMainPicture(media, row.lock_id)
                 /\ req' = [req EXCEPT ![r] = MediaReq("create", 0, row.lock_id, mediaData)]
                 /\ pc' = [pc EXCEPT ![r] = "mediaInsert"]
                 /\ UNCHANGED <<resp, mediaSeq>>
            ELSE /\ resp' = Resp("mediaCreate", 0, "StorageError", Null, 1)
                 /\ UNCHANGED <<media, mediaSeq, pc, req>>
       ELSE IF ok
            THEN /\ media' = InsertMedia(media, mediaSeq, row)
                 /\ mediaSeq' = mediaSeq + 1
                 /\ resp' = Resp("mediaCreate", mediaSeq + 1, "ok", Null, 1)
                 /\ UNCHANGED <<pc, req>>
            ELSE /\ resp' = Resp("mediaCreate", 0, "StorageError", Null, 1)
                 /\ UNCHANGED <<media, mediaSeq, pc, req>>
    /\ UNCHANGED <<locks, users, userSeq, milestoneLog, limiterVars>>

\* create(mediaData) of a main picture from its INSERT on
MediaInsert(r, ok) ==
    /\ pc[r] = "mediaInsert"
    /\ IF ok
       THEN /\ media' = InsertMedia(media, mediaSeq, NewMediaRow(req[r].mediaData))
            /\ mediaSeq' = mediaSeq + 1
            /\ resp' = Resp("mediaCreate", mediaSeq + 1, "ok", Null, 2)
       ELSE /\ resp' = Resp("mediaCreate", 0, "StorageError", Null, 2)
            /\ UNCHANGED <<media, mediaSeq>>
    /\ pc' = [pc EXCEPT ![r] = "idle"]
    /\ req' = [req EXCEPT ![r] = NoReq]
    /\ UNCHANGED <<locks, users, userSeq, milestoneLog, limiterVars>>

\* update(id, mediaData): its findById
MediaUpdateFind(r, id, mediaData) ==
    /\ pc[r] = "idle"
    /\ LET currentMedia == MediaFindById(id) IN
       IF currentMedia = Null
       THEN /\ resp' = Resp("mediaUpdate", id, "NotFound", Null, 0)
            /\ UNCHANGED <<pc, req>>
       ELSE /\ req' = [req EXCEPT ![r] =
                          MediaReq("update", id, currentMedia[1].lock_id, mediaData)]
            /\ pc' = [pc EXCEPT ![r] =
                          IF SetsMainPicture(mediaData) THEN "mediaUnset" ELSE "mediaWrite"]
            /\ UNCHANGED resp
    /\ UNCHANGED <<locks, media, users, mediaSeq, userSeq, milestoneLog, limiterVars>>

\* update(id, mediaData): its unsetMainPicture
MediaUpdateUnset(r, ok) ==
    /\ pc[r] = "mediaUnset"
    /\ IF ok
       THEN /\ media' = UnsetMainPicture(media, req[r].lock_id)
            /\ pc' = [pc EXCEPT ![r] = "mediaWrite"]
            /\ UNCHANGED <<resp, req>>
       ELSE /\ resp' = Resp("mediaUpdate", req[r].id, "StorageError", Null, 1)
            /\ pc' = [pc EXCEPT ![r] = "idle"]
            /\ req' = [req EXCEPT ![r] = NoReq]
            /\ UNCHANGED media
    /\ UNCHANGED <<locks, users, mediaSeq, userSeq, milestoneLog, limiterVars>>

\* update(id, mediaData) from the test of updateFields on: the UPDATE and the
\* read back
MediaUpdateWrite(r, ok) ==
    /\ pc[r] = "mediaWrite"
    /\ LET id == req[r].id
           mediaData == req[r].mediaData
           unsets == IF SetsMainPicture(mediaData) THEN 1 ELSE 0
       IN IF MediaUpdateFields(mediaData) = {}
          THEN /\ resp' = Resp("mediaUpdate", id, "NoFields", Null, unsets)
               /\ UNCHANGED media
          ELSE IF ~ok
          THEN /\ resp' = Resp("mediaUpdate", id, "StorageError", Null, unsets + 1)
               /\ UNCHANGED media
          ELSE IF id \notin DOMAIN media
          THEN /\ resp' = Resp("mediaUpdate", id, "NotFound", Null, unsets + 1)
               /\ UNCHANGED media
          ELSE /\ media' = [media EXCEPT ![id] = MediaSetRow(@, mediaData)]
               /\ resp' = Resp("mediaUpdate", id, "ok", Null, unsets + 1)
    /\ pc' = [pc EXCEPT ![r] = "idle"]
    /\ req' = [req EXCEPT ![r] = NoReq]
    /\ UNCHANGED <<locks, users, mediaSeq, userSeq, milestoneLog, limiterVars>>

\* Uploads to lock 1, with and without the main-picture flag
MediaCreateInputs ==
    {[ lock_id |-> 1, cloudflare_id |-> Def("cf_img_009"),
       url |-> Def("https://imagedelivery.net/example9.jpg"),
       file_name |-> Undefined, media_type |-> Def("image/png"),
       is_main_picture |-> flag, display_order |-> Undefined ] :
         flag \in {Undefined, Def(TRUE)}}

\* The media objects of lock 1 and an id that names none
ConcMediaIds == {1, 2, Len(SeedMedia) + MaxMedia}

NextMedia ==
    \/ \E r \in Slots, mediaData \in MediaCreateInputs, ok \in BOOLEAN :
          MediaCreateCall(r, mediaData, ok)
    \/ \E r \in Slots, ok \in BOOLEAN : MediaInsert(r, ok)
    \/ \E r \in Slots, id \in ConcMediaIds, mediaData \in FlagOnlyInputs :
          MediaUpdateFind(r, id, mediaData)
    \/ \E r \in Slots, ok \in BOOLEAN : MediaUpdateUnset(r, ok)
    \/ \E r \in Slots, ok \in BOOLEAN : MediaUpdateWrite(r, ok)

SpecMedia == InitSeeded /\ [][NextMedia]_vars

-----------------------------------------------------------------------------
(* middleware/rateLimit.ts *)

\* rateLimiters: the pre-configured policies
RateLimiters ==
    [ mediaUpload |-> [windowMs |-> 60000, maxRequests |-> 10],
      api         |-> [windowMs |-> 60000, maxRequests |-> 60],
      read        |-> [windowMs |-> 60000, maxRequests |-> 120],
      batch       |-> [windowMs |-> 60000, maxRequests |-> 5] ]

Policies == DOMAIN RateLimiters

\* defaultKeyGenerator(c): the Worker-API-Key header when it is there and
\* not empty, else the first of CF-Connecting-IP and X-Forwarded-For that is,
\* else 'unknown'
DefaultKeyGenerator(headers) ==
    IF headers.apiKey # Undefined /\ headers.apiKey[1] # ""
    THEN <<"apikey", headers.apiKey[1]>>
    ELSE <<"ip", IF headers.cfConnectingIp # Undefined /\ headers.cfConnectingIp[1] # ""
                 THEN headers.cfConnectingIp[1]
                 ELSE IF headers.xForwardedFor # Undefined /\ headers.xForwardedFor[1] # ""
                 THEN headers.xForwardedFor[1]
                 ELSE "unknown">>

\* The entry the middleware works on, were the window over at its reset time
\* (now >= entry.resetTime)
CountedEntry_AtDeadline(store, key, t, windowMs) ==
    LET entry == IF key \notin DOMAIN store \/ t >= store[key].resetTime
                 THEN [count |-> 0, resetTime |-> t + windowMs]
                 ELSE store[key]
    IN [entry EXCEPT !.count = @ + 1]

\* The entry the middleware works on: a new one when the key has none or its
\* window is over, counted up by one
CountedEntry(store, key, t, windowMs) ==
    LET entry == IF key \notin DOMAIN store \/ t > store[key].resetTime
                 THEN [count |-> 0, resetTime |-> t + windowMs]
                 ELSE store[key]
    IN [entry EXCEPT !.count = @ + 1]

\* The test of the limit, were it >= rather than >
Exceeded_AtLeast(entry, maxRequests) == entry.count >= maxRequests

\* The test of the limit, were it never to hold
Exceeded_Never(entry, maxRequests) == FALSE

\* entry.count > maxRequests
Exceeded(entry, maxRequests) == entry.count > maxRequests

\* The ceiling a caller's count is explored up to
CountCap(key) == IF key[1] = "apikey" THEN MaxCount ELSE MaxIpCount

\* The middleware rateLimit(config) returns, for one request.  "next" is the
\* call of next(), "429" the answer of defaultHandler.
RateLimit(policy, headers) ==
    /\ LET config == RateLimiters[policy]
           key == DefaultKeyGenerator(headers)
           entry == CountedEntry(rateLimitStore, key, now, config.windowMs)
       IN /\ entry.count <= CountCap(key)
          /\ rateLimitStore' = [k \in DOMAIN rateLimitStore \cup {key} |->
                                   IF k = key THEN entry ELSE rateLimitStore[k]]
          /\ resp' = Resp(policy, entry.count,
                          IF Exceeded(entry, config.maxRequests) THEN "429" ELSE "next",
                          Null, 0)
    /\ UNCHANGED <<locks, media, users, mediaSeq, userSeq, milestoneLog, pc, req, now, request>>

\* The setInterval callback, were it to delete the entries whose reset time
\* has been reached (now >= entry.resetTime)
Sweep_AtDeadline ==
    /\ now >= 60000
    /\ \E key \in DOMAIN rateLimitStore : now >= rateLimitStore[key].resetTime
    /\ rateLimitStore' = [k \in {key \in DOMAIN rateLimitStore :
                                    ~(now >= rateLimitStore[key].resetTime)} |->
                             rateLimitStore[k]]
    /\ UNCHANGED <<locks, media, users, mediaSeq, userSeq, resp, milestoneLog, pc, req, now,
                   request>>

\* The setInterval callback: entries whose window is over are deleted
Sweep ==
    /\ now >= 60000
    /\ \E key \in DOMAIN rateLimitStore : now > rateLimitStore[key].resetTime
    /\ rateLimitStore' = [k \in {key \in DOMAIN rateLimitStore :
                                    ~(now > rateLimitStore[key].resetTime)} |->
                             rateLimitStore[k]]
    /\ UNCHANGED <<locks, media, users, mediaSeq, userSeq, resp, milestoneLog, pc, req, now,
                   request>>

\* The instants the clock is looked at: half a window on, the reset time of
\* an entry and the millisecond after it
Instants ==
    {now + 30000}
    \cup {rateLimitStore[k].resetTime : k \in DOMAIN rateLimitStore}
    \cup {rateLimitStore[k].resetTime + 1 : k \in DOMAIN rateLimitStore}

\* Time passes
Tick(t) ==
    /\ t > now
    /\ t <= MaxNow
    /\ now' = t
    /\ UNCHANGED <<locks, media, users, mediaSeq, userSeq, resp, milestoneLog, pc, req,
                   rateLimitStore, request>>

\* The callers: the holder of the worker key, and one that sends no key
HeaderInputs ==
    { [apiKey |-> Def("worker-key"), cfConnectingIp |-> Def("203.0.113.7"),
       xForwardedFor |-> Undefined],
      [apiKey |-> Undefined, cfConnectingIp |-> Undefined,
       xForwardedFor |-> Def("203.0.113.7")] }

NextLimiter ==
    \/ \E policy \in Policies, headers \in HeaderInputs : RateLimit(policy, headers)
    \/ Sweep
    \/ \E t \in Instants : Tick(t)

SpecLimiter == Init /\ [][NextLimiter]_vars

-----------------------------------------------------------------------------
(* User routes: POST /users/create and DELETE /users/:userId *)

\* `v || null` of an optional string, as held by a nullable column
NullIfFalsy(slot) == IF slot = Undefined \/ slot[1] = "" THEN Null ELSE <<slot[1]>>

\* userData.name.trim()
Trim(name) ==
    CASE name = " Sam Roe " -> "Sam Roe"
      [] OTHER              -> name

\* SELECT * FROM users WHERE email = ?  (results[0], as its id)
FindByEmail(table, email) ==
    LET found == {i \in DOMAIN table : table[i].email = <<email>>}
    IN IF found = {} THEN Null ELSE <<CHOOSE i \in found : \A j \in found : i <= j>>

\* SELECT * FROM users WHERE phone_number = ?  (results[0], as its id)
FindByPhoneNumber(table, phoneNumber) ==
    LET found == {i \in DOMAIN table : table[i].phone_number = <<phoneNumber>>}
    IN IF found = {} THEN Null ELSE <<CHOOSE i \in found : \A j \in found : i <= j>>

\* The row UserRepository.create inserts
NewUserRow(userData) ==
    UserRow(<<Trim(userData.name)>>, NullIfFalsy(userData.email),
            NullIfFalsy(userData.phoneNumber),
            OrDefault(userData.authProvider, {""}, ""),
            NullIfFalsy(userData.providerId), 0, 0)

\* existingUser of POST /users/create: looked up by email when the body has
\* one, else by phone number when it has one
ExistingUser(table, userData) ==
    IF NullIfFalsy(userData.email) # Null
    THEN FindByEmail(table, userData.email[1])
    ELSE IF NullIfFalsy(userData.phoneNumber) # Null
    THEN FindByPhoneNumber(table, userData.phoneNumber[1])
    ELSE Null

\* POST /users/create
CreateUser(userData, insertOk) ==
    /\ IF ExistingUser(users, userData) # Null
       THEN /\ resp' = Resp("createUser", 0, "409", Null, 0)
            /\ UNCHANGED <<users, userSeq>>
       ELSE IF ~insertOk
       THEN /\ resp' = Resp("createUser", 0, "500", Null, 1)
            /\ UNCHANGED <<users, userSeq>>
       ELSE /\ userSeq < MaxUsers
            /\ users' = [i \in DOMAIN users \cup {userSeq + 1} |->
                            IF i = userSeq + 1 THEN NewUserRow(userData) ELSE users[i]]
            /\ userSeq' = userSeq + 1
            /\ resp' = Resp("createUser", userSeq + 1, "201", Null, 1)
    /\ UNCHANGED <<locks, media, mediaSeq, milestoneLog, pc, req, limiterVars>>

\* parseBooleanQuery(c.req.query('deleteMedia'))
ParseBooleanQuery(value) ==
    IF value = Undefined \/ value[1] = "" THEN FALSE
    ELSE CASE value[1] = "true"  -> TRUE
           [] value[1] = " TRUE " -> TRUE
           [] value[1] = "1"     -> TRUE
           [] value[1] = "yes"   -> TRUE
           [] value[1] = "y"     -> TRUE
           [] OTHER              -> FALSE

\* The bodies POST /users/create is sent: an email and a phone number that an
\* account holds, ones that none holds, or none
UserDataInputs ==
    [ name         : {" Sam Roe "},
      email        : {Undefined, Def("john.doe@example.com"), Def("sam.roe@example.com")},
      phoneNumber  : {Undefined, Def("+1234567890"), Def("+1987654321")},
      authProvider : {Def("email")},
      providerId   : {Undefined} ]

DeleteMediaQueries == {Undefined, Def("true"), Def("false"), Def(" TRUE ")}

\* The users and locks the requests name
DeleteUserIds == {1, 2, MaxUsers + 1}
ConnectLockIds == {2}

NextUsers ==
    \/ \E userData \in UserDataInputs, insertOk \in BOOLEAN : CreateUser(userData, insertOk)
    \/ \E userId \in DeleteUserIds, value \in DeleteMediaQueries, okWrites \in 0 .. Len(SeedLocks) + 2 :
          DeleteUser(userId, ParseBooleanQuery(value), okWrites)
    \/ \E lockId \in ConnectLockIds : ConnectLock(1, lockId, TRUE)

SpecUsers == InitSeeded /\ [][NextUsers]_vars

-----------------------------------------------------------------------------
(* POST /locks/create/:totalLocks *)

batchSize == 100
TotalLocksLimit == 10000

NaN == Null

\* A text is the sequence of its characters
DigitChars == <<"0", "1", "2", "3", "4", "5", "6", "7", "8", "9">>
IsDigit(char) == \E d \in DOMAIN DigitChars : DigitChars[d] = char
DigitValue(char) == (CHOOSE d \in DOMAIN DigitChars : DigitChars[d] = char) - 1

\* The value of the digits of text from position k on, up to the first
\* character that is no digit
RECURSIVE ParseDigits(_, _, _)
ParseDigits(text, k, value) ==
    IF k > Len(text) \/ ~IsDigit(text[k]) THEN value
    ELSE ParseDigits(text, k + 1, 10 * value + DigitValue(text[k]))

\* parseInt(text): an optional sign and the leading digits of the text, or
\* NaN when it does not start with a digit (texts without leading blanks
\* or a 0x prefix)
ParseInt(text) ==
    LET negative == text # <<>> /\ text[1] = "-"
        first == IF negative THEN 2 ELSE 1
    IN IF first > Len(text) \/ ~IsDigit(text[first]) THEN NaN
       ELSE IF negative THEN <<0 - ParseDigits(text, first, 0)>>
       ELSE <<ParseDigits(text, first, 0)>>

\* isNaN(totalLocks) || totalLocks <= 0 || totalLocks > 10000
InvalidTotalLocks(totalLocks) ==
    totalLocks = NaN \/ totalLocks[1] <= 0 \/ totalLocks[1] > TotalLocksLimit

\* getLastLock(): the row with the highest id, as its id, or null
GetLastLock == IF DOMAIN locks = {} THEN Null ELSE <<GetLastLockId>>

\* Variant: the numbering starts at the last id itself
StartId_LastId(lastLock) == IF lastLock = Null THEN 1 ELSE lastLock[1]

\* startId = lastLock ? lastLock.id + 1 : 1
StartId(lastLock) == IF lastLock = Null THEN 1 ELSE lastLock[1] + 1

\* How the k-th call of lockRepo.create ends: "ok", "insert" (the INSERT
\* fails) or "read" (the INSERT is done and the read of the new row fails)
CreateOutcomes == {"ok", "insert", "read"}
OutcomeOf(faults, attempt) ==
    IF attempt \in DOMAIN faults THEN faults[attempt] ELSE "ok"

\* Variant: only full batches are processed
FlushNow_FullOnly(len, i, totalLocks) == len = batchSize

\* batch.length === batchSize || i === totalLocks - 1
FlushNow(len, i, totalLocks) == len = batchSize \/ i = totalLocks - 1

\* The batches the loop processes, each as the first and last i pushed to it:
\* a batch that starts at i = first is processed at the first i where
\* FlushNow holds of its length
RECURSIVE Batches(_, _)
Batches(first, totalLocks) ==
    LET flushes == {i \in first .. totalLocks - 1 : FlushNow(i - first + 1, i, totalLocks)}
    IN IF flushes = {} THEN <<>>
       ELSE LET last == CHOOSE i \in flushes : \A j \in flushes : i <= j
            IN <<[first |-> first, last |-> last]>> \o Batches(last + 1, totalLocks)

\* The calls of lockRepo.create made for a batch, numbered over the request
BatchAttempts(batch) == (batch.first + 1) .. (batch.last + 1)

\* try { newLock = await lockRepo.create(lockData); createdLocks.push(newLock) }
\* catch { continue }: the calls before call k whose INSERT failed took no id
FailedInsertsBefore(faults, k) ==
    Cardinality({j \in DOMAIN faults : j < k /\ faults[j] = "insert"})
InsertedId(faults, k) == NextLockId + (k - 1) - FailedInsertsBefore(faults, k)

\* The loop of the handler from the table as it stands: the calls of
\* lockRepo.create it makes, the rows they insert and the locks pushed to
\* createdLocks
BulkRun(totalLocks, faults) ==
    LET batches == Batches(0, totalLocks)
        attempts == UNION {BatchAttempts(batches[b]) : b \in DOMAIN batches}
        inserted == {k \in attempts : OutcomeOf(faults, k) # "insert"}
    IN [ batches      |-> batches,
         attempts     |-> Cardinality(attempts),
         rows         |-> [id \in {InsertedId(faults, k) : k \in inserted} |->
                              LockCreateRow(BulkLockData)],
         createdLocks |-> {InsertedId(faults, k) :
                              k \in {a \in attempts : OutcomeOf(faults, a) = "ok"}} ]

\* The response of the route: its status, Success, and the numbers of its
\* Message; id is startId and writes the number of calls of lockRepo.create
BulkResp(startId, status, attempts, message) ==
    [ op |-> "bulkCreate", id |-> startId, status |-> status, milestone |-> Null,
      writes |-> attempts, message |-> message ]
NoMessage == [created |-> 0, from |-> 0, to |-> 0]

\* POST /locks/create/:totalLocks.  lastLock is how getLastLock's query ends:
\* "ok", "noSuccess" (result.success is false) or "throws".
BulkCreate(param, lastLock, faults) ==
    /\ LET totalLocks == ParseInt(param)
       IN IF InvalidTotalLocks(totalLocks)
          THEN /\ resp' = BulkResp(0, "400", 0, NoMessage)
               /\ UNCHANGED <<locks, milestoneLog>>
          ELSE IF lastLock = "throws"
          THEN /\ resp' = BulkResp(0, "500", 0, NoMessage)
               /\ UNCHANGED <<locks, milestoneLog>>
          ELSE /\ Cardinality(DOMAIN locks) <= MaxBulkStart
               /\ LET startId == StartId(IF lastLock = "ok" THEN GetLastLock ELSE Null)
                      run == BulkRun(totalLocks[1], faults)
                      created == Cardinality(run.createdLocks)
                  IN /\ resp' = BulkResp(startId, "200", run.attempts,
                                   [created |-> created, from |-> startId,
                                    to |-> startId + created - 1])
                     /\ locks' = run.rows @@ locks
                     /\ milestoneLog' = [i \in DOMAIN run.rows |-> <<>>] @@ milestoneLog
    /\ UNCHANGED <<media, users, mediaSeq, userSeq, pc, req, limiterVars>>

\* "abc", "-1", "0", "1", "2.9", "3x", "100", "101", "201", "10001"
TotalLocksParams ==
    { <<"a", "b", "c">>, <<"-", "1">>, <<"0">>, <<"1">>, <<"2", ".", "9">>, <<"3", "x">>,
      <<"1", "0", "0">>, <<"1", "0", "1">>, <<"2", "0", "1">>, <<"1", "0", "0", "0", "1">> }
LastLockOutcomes == {"ok", "noSuccess", "throws"}

\* The calls of lockRepo.create that may fail: the first two, and the first
\* of the second batch
FaultAt == {1, 2, batchSize + 1}
\* and the read of the new row may fail for the first call
FaultInputs ==
    {faults \in [FaultAt -> CreateOutcomes] :
        \A k \in FaultAt \ {1} : faults[k] # "read"}

NextBulk ==
    \E param \in TotalLocksParams, lastLock \in LastLockOutcomes, faults \in FaultInputs :
        BulkCreate(param, lastLock, faults)

SpecBulk == Init /\ [][NextBulk]_vars

-----------------------------------------------------------------------------
(* utils/hashids.ts and GET /album/:identifier *)

\* encodeId(id, salt, minLength): the texts stand for the encodings of the
\* ids under the configured salt and minimum length 6
EncodeId(id) ==
    CASE id = 1  -> <<"X", "k", "3", "m", "P", "9">>
      [] id = 2  -> <<"b", "7", "Q", "z", "R", "2">>
      [] id = 3  -> <<"L", "w", "5", "n", "J", "8">>
      [] id = 12 -> <<"v", "D", "4", "y", "G", "6">>
EncodedIds == {1, 2, 3, 12}

\* decodeId(hash, salt, minLength): the id the text encodes, or null
DecodeId(hash) ==
    LET decoded == {id \in EncodedIds : EncodeId(id) = hash}
    IN IF decoded = {} THEN Null ELSE <<CHOOSE id \in decoded : TRUE>>

AlnumChars ==
    { "0", "1", "2", "3", "4", "5", "6", "7", "8", "9",
      "a", "b", "c", "d", "e", "f", "g", "h", "i", "j", "k", "l", "m",
      "n", "o", "p", "q", "r", "s", "t", "u", "v", "w", "x", "y", "z",
      "A", "B", "C", "D", "E", "F", "G", "H", "I", "J", "K", "L", "M",
      "N", "O", "P", "Q", "R", "S", "T", "U", "V", "W", "X", "Y", "Z" }

\* /^[a-zA-Z0-9]{6,}$/.test(value) && decodeId(value, salt, minLength) !== null
IsHashedId(value) ==
    /\ Len(value) >= 6
    /\ \A k \in DOMAIN value : value[k] \in AlnumChars
    /\ DecodeId(value) # Null

\* findByLockId: the ids of the lock's media objects, ORDER BY display_order
\* ASC, created_at DESC (a later row has the higher id)
RECURSIVE OrderMedia(_)
OrderMedia(ids) ==
    IF ids = {} THEN <<>>
    ELSE LET head == CHOOSE i \in ids : \A j \in ids \ {i} :
                        \/ media[i].display_order < media[j].display_order
                        \/ media[i].display_order = media[j].display_order /\ i > j
         IN <<head>> \o OrderMedia(ids \ {head})
FindByLockId(lockId) == OrderMedia({i \in DOMAIN media : media[i].lock_id = lockId})

\* mediaDtos
MediaDto(id) ==
    [ Id           |-> id,
      Type         |-> IF media[id].media_type = "image" THEN 0 ELSE 1,
      Url          |-> media[id].url,
      IsMainImage  |-> IntBoolean(media[id].is_main_picture),
      DisplayOrder |-> media[id].display_order,
      CloudflareId |-> media[id].cloudflare_id ]

\* albumDto (DateTime, the date of created_at, is left out with the column)
AlbumDto(lockId, hashedLockId) ==
    [ AlbumTitle   |-> IF locks[lockId].album_title = "" THEN "Untitled Album"
                       ELSE locks[lockId].album_title,
      SealDate     |-> IF locks[lockId].seal_date = <<"">> THEN Null
                       ELSE locks[lockId].seal_date,
      Media        |-> [k \in DOMAIN FindByLockId(lockId) |-> MediaDto(FindByLockId(lockId)[k])],
      HashedLockId |-> hashedLockId ]

\* The response of the route: the identifier asked for, the status and Data
AlbumResp(identifier, status, data) ==
    [ op |-> "album", id |-> identifier, status |-> status, milestone |-> Null,
      writes |-> 0, data |-> data ]

\* lockId and hashedLockId as the handler resolves them, or null for the
\* 400 answers
ResolveIdentifier(identifier) ==
    IF IsHashedId(identifier)
    THEN IF DecodeId(identifier) = Null THEN Null
         ELSE <<[lockId |-> DecodeId(identifier)[1], hashedLockId |-> identifier]>>
    ELSE IF ParseInt(identifier) = NaN THEN Null
         ELSE <<[lockId |-> ParseInt(identifier)[1],
                 hashedLockId |-> EncodeId(ParseInt(identifier)[1])]>>

\* GET /album/:identifier.  fail is the read that fails: "lock" (findById
\* gets no success and returns null), "media" (findByLockId throws) or "none".
AlbumGet(identifier, fail) ==
    /\ LET resolved == ResolveIdentifier(identifier)
       IN resp' =
            IF identifier = <<>> \/ resolved = Null
            THEN AlbumResp(identifier, "400", Null)
            ELSE IF fail = "lock" \/ LockFindById(resolved[1].lockId) = Null
            THEN AlbumResp(identifier, "404", Null)
            ELSE IF fail = "media"
            THEN AlbumResp(identifier, "500", Null)
            ELSE AlbumResp(identifier, "200",
                           <<AlbumDto(resolved[1].lockId, resolved[1].hashedLockId)>>)
    /\ UNCHANGED <<locks, media, users, mediaSeq, userSeq, milestoneLog, pc, req, limiterVars>>

\* Identifiers asked for: the encodings of locks 1 and 2 and of the absent
\* lock 3, "1", "2", "3", "12", and "abc", "1abc", "Zz9Zz9", "2.5"
AlbumIdentifiers ==
    { EncodeId(1), EncodeId(2), EncodeId(3),
      <<"1">>, <<"2">>, <<"3">>, <<"1", "2">>,
      <<"a", "b", "c">>, <<"1", "a", "b", "c">>,
      <<"Z", "z", "9", "Z", "z", "9">>, <<"2", ".", "5">> }

\* The display orders the media objects are moved to
AlbumOrderInputs == {[NoMediaData EXCEPT !.display_order = Def(d)] : d \in {0, 3}}

\* The media objects of lock 1
AlbumMediaIds == {1, 2}

NextAlbum ==
    \/ \E identifier \in AlbumIdentifiers, fail \in {"none", "lock", "media"} :
          AlbumGet(identifier, fail)
    \/ \E id \in DOMAIN SeedLocks : ToggleSeal(id, TRUE)
    \/ \E id \in AlbumMediaIds, mediaData \in AlbumOrderInputs :
          MediaUpdate(id, mediaData, "none")

SpecAlbum == InitSeeded /\ [][NextAlbum]_vars

-----------------------------------------------------------------------------
(* index.ts, middleware/auth.ts and the albums routes behind them *)

\* c.env.WORKER_API_KEY
WORKER_API_KEY == "worker-key"

\* path.startsWith(prefix), on the characters of the texts
StartsWith(text, prefix) ==
    Len(text) >= Len(prefix) /\ SubSeq(text, 1, Len(prefix)) = prefix

\* The paths requests are sent to
PathPublicHealth ==   \* /public/health
    <<"/", "p", "u", "b", "l", "i", "c", "/", "h", "e", "a", "l", "t", "h">>
PathRoot ==   \* /
    <<"/">>
PathApiStatus ==   \* /api/status
    <<"/", "a", "p", "i", "/", "s", "t", "a", "t", "u", "s">>
PathUsersCreate ==   \* /users/create
    <<"/", "u", "s", "e", "r", "s", "/", "c", "r", "e", "a", "t", "e">>
PathAlbumOne ==   \* /album/1
    <<"/", "a", "l", "b", "u", "m", "/", "1">>
PathAlbumsUpdateTitle ==   \* /albums/update-title
    <<"/", "a", "l", "b", "u", "m", "s", "/", "u", "p", "d", "a", "t", "e", "-", "t", "i", "t", "l", "e">>
PathAlbumUpdateTitle ==   \* /album/update-title
    <<"/", "a", "l", "b", "u", "m", "/", "u", "p", "d", "a", "t", "e", "-", "t", "i", "t", "l", "e">>
PathAlbumsPublishChanges ==   \* /albums/publish-changes
    <<"/", "a", "l", "b", "u", "m", "s", "/", "p", "u", "b", "l", "i", "s", "h", "-", "c", "h", "a", "n", "g", "e", "s">>
PathNowhere ==   \* /nowhere
    <<"/", "n", "o", "w", "h", "e", "r", "e">>

\* authenticateWorkerApiKey(c, next): "next" when next() is called, "401"
\* when the request is answered 401
AuthenticateWorkerApiKey(path, apiKey) ==
    IF path = PathPublicHealth \/ path = PathRoot \/ StartsWith(path, <<"/", "a", "l", "b", "u", "m">>)
    THEN "next"
    ELSE IF apiKey = Undefined \/ apiKey[1] = "" THEN "401"
    ELSE IF apiKey[1] # WORKER_API_KEY THEN "401"
    ELSE "next"

\* The handler the app routes a request to: the routes of index.ts, and
\* those of the modules mounted at /users, /albums and /album
Route(method, path) ==
    CASE method = "GET" /\ path = PathPublicHealth            -> "health"
      [] method = "GET" /\ path = PathRoot                    -> "root"
      [] method = "GET" /\ path = PathApiStatus               -> "status"
      [] method = "POST" /\ path = PathUsersCreate            -> "createUser"
      [] method = "GET" /\ path = PathAlbumOne                -> "album"
      [] method = "POST" /\ path = PathAlbumsUpdateTitle      -> "updateTitle"
      [] method = "POST" /\ path = PathAlbumUpdateTitle       -> "updateTitle"
      [] method = "POST" /\ path = PathAlbumsPublishChanges   -> "publishChanges"
      [] OTHER                                                -> "notFound"

\* albums.use('/update-title', authMiddleware) and
\* albums.use('/publish-changes', authMiddleware)
AlbumsUse == {"updateTitle", "publishChanges"}

\* The middleware a request goes through before its handler:
\* app.use('*', authenticateWorkerApiKey), then that of the albums module
Admitted(method, path, apiKey) ==
    /\ AuthenticateWorkerApiKey(path, apiKey) = "next"
    /\ Route(method, path) \in AlbumsUse => AuthenticateWorkerApiKey(path, apiKey) = "next"

\* A request arrives and goes through the middleware
Admit(method, path, apiKey) ==
    /\ request' = [method |-> method, path |-> path, apiKey |-> apiKey,
                   admitted |-> Admitted(method, path, apiKey)]
    /\ resp' = Resp("auth", 0, IF Admitted(method, path, apiKey) THEN "next" ELSE "401",
                    Null, 0)
    /\ UNCHANGED <<locks, media, users, mediaSeq, userSeq, milestoneLog, pc, req,
                   rateLimitStore, now>>

\* app.get('/public/health'), app.get('/'), app.get('/api/status'),
\* app.notFound
Static(route) ==
    /\ resp' = Resp(route, 0, IF route = "notFound" THEN "404" ELSE "200", Null, 0)
    /\ UNCHANGED <<locks, media, users, mediaSeq, userSeq, milestoneLog, pc, req, limiterVars>>

\* POST /albums/update-title
UpdateTitle(lockId, albumTitle, writeOk) ==
    /\ IF lockId = 0 \/ albumTitle = ""
       THEN /\ resp' = Resp("updateTitle", lockId, "400", Null, 0)
            /\ UNCHANGED locks
       ELSE IF LockFindById(lockId) = Null
       THEN /\ resp' = Resp("updateTitle", lockId, "404", Null, 0)
            /\ UNCHANGED locks
       ELSE LET r == LockUpdateResult(locks, users, lockId,
                        [NoLockData EXCEPT !.album_title = Def(albumTitle)], writeOk)
            IN /\ locks' = r.table
               /\ resp' = Resp("updateTitle", lockId, RouteStatus(r.status), Null, r.writes)
    /\ UNCHANGED <<media, users, mediaSeq, userSeq, milestoneLog, pc, req, limiterVars>>

\* POST /albums/publish-changes for a body without existingMedia and
\* newMedia.  The writes are the update of the title, when the body has one
\* that differs, and one delete per deleted id; the first okWrites succeed.
PublishChanges(body, okWrites) ==
    /\ IF body.lockId = 0
       THEN /\ resp' = Resp("publishChanges", body.lockId, "400", Null, 0)
            /\ UNCHANGED <<locks, media>>
       ELSE IF LockFindById(body.lockId) = Null
       THEN /\ resp' = Resp("publishChanges", body.lockId, "404", Null, 0)
            /\ UNCHANGED <<locks, media>>
       ELSE LET existingLookup == {i \in DOMAIN media : media[i].lock_id = body.lockId}
                deletedMediaIds == body.deletedMediaIds
                titleWrites == IF /\ body.albumTitle # Undefined
                                  /\ body.albumTitle[1] # ""
                                  /\ body.albumTitle[1] # locks[body.lockId].album_title
                               THEN 1 ELSE 0
                total == titleWrites + Len(deletedMediaIds)
                deleted == {deletedMediaIds[k] : k \in 1 .. (okWrites - titleWrites)}
            IN IF \E k \in DOMAIN deletedMediaIds : deletedMediaIds[k] \notin existingLookup
               THEN /\ resp' = Resp("publishChanges", body.lockId, "400", Null, 0)
                    /\ UNCHANGED <<locks, media>>
               ELSE /\ okWrites <= total
                    /\ locks' = IF titleWrites = 1 /\ okWrites >= 1
                                THEN LockUpdateResult(locks, users, body.lockId,
                                        [NoLockData EXCEPT !.album_title = body.albumTitle],
                                        TRUE).table
                                ELSE locks
                    /\ media' = [i \in DOMAIN media \ deleted |-> media[i]]
                    /\ resp' = Resp("publishChanges", body.lockId,
                                    IF okWrites = total THEN "200" ELSE "500", Null,
                                    IF okWrites = total THEN total ELSE okWrites + 1)
    /\ UNCHANGED <<users, mediaSeq, userSeq, milestoneLog, pc, req, limiterVars>>

\* The bodies and parameters of the requests served
ServedUserData ==
    [ name |-> " Sam Roe ", email |-> Def("sam.roe@example.com"), phoneNumber |-> Undefined,
      authProvider |-> Def("email"), providerId |-> Undefined ]
TitleInputs == {"", "Our Album"}
PublishBodies ==
    [ lockId : {1, Len(SeedLocks) + 1},
      albumTitle : {Undefined, Def("Our Album")},
      deletedMediaIds : {<<>>, <<2>>, <<3>>} ]

\* The handler of the request that went through the middleware runs
Serve ==
    /\ request.admitted
    /\ LET route == Route(request.method, request.path)
       IN CASE route \in {"health", "root", "status", "notFound"} -> Static(route)
            [] route = "createUser" -> CreateUser(ServedUserData, TRUE)
            [] route = "album" -> AlbumGet(<<"1">>, "none")
            [] route = "updateTitle" ->
                  \E lockId \in {1, Len(SeedLocks) + 1}, albumTitle \in TitleInputs :
                      UpdateTitle(lockId, albumTitle, TRUE)
            [] route = "publishChanges" ->
                  \E body \in PublishBodies, okWrites \in 0 .. 2 : PublishChanges(body, okWrites)

RequestInputs ==
    { <<"GET", PathPublicHealth>>, <<"GET", PathRoot>>, <<"GET", PathApiStatus>>,
      <<"POST", PathUsersCreate>>, <<"GET", PathAlbumOne>>,
      <<"POST", PathAlbumsUpdateTitle>>, <<"POST", PathAlbumUpdateTitle>>,
      <<"POST", PathAlbumsPublishChanges>>, <<"GET", PathNowhere>> }
ApiKeyInputs == {Undefined, Def("wrong-key"), Def(WORKER_API_KEY)}

NextApp ==
    \/ \E r \in RequestInputs, apiKey \in ApiKeyInputs : Admit(r[1], r[2], apiKey)
    \/ Serve

SpecApp == InitSeeded /\ [][NextApp]_vars

-----------------------------------------------------------------------------
(* Calls that name a row that is not there *)

\* Scans of lock 2, and scans and partial updates of a lock id no row has
AbsentLockId == Len(SeedLocks) + 1
NextAbsent ==
    \/ \E id \in {2, AbsentLockId}, writeOk \in BOOLEAN : IncrementScanCount(id, writeOk)
    \/ \E lockData \in LockDataInputs, writeOk \in BOOLEAN :
          LockUpdate(AbsentLockId, lockData, writeOk)

SpecAbsent == InitSeeded /\ [][NextAbsent]_vars

-----------------------------------------------------------------------------
(* Scan-count milestones: claims *)

MilestoneSet == {SCAN_MILESTONES[i] : i \in DOMAIN SCAN_MILESTONES}

\* The step is a successful incrementScanCount(id)
ScanOk(id) ==
    /\ resp'.op = "incrementScanCount"
    /\ resp'.id = id
    /\ resp'.status = "ok"

\* C1: a successful incrementScanCount on a lock with stored count c and
\* stored last milestone m (0 when never set) stores scan_count = c + 1; when
\* c + 1 is a milestone and c + 1 > m it stores last_scan_milestone = c + 1
\* and returns c + 1, otherwise it leaves last_scan_milestone at m and returns
\* no milestone.
C1_IncrementContract ==
    [][\A id \in DOMAIN locks :
          ScanOk(id) =>
             LET c == locks[id].scan_count
                 m == Coalesce(locks[id].last_scan_milestone, 0)
             IN /\ locks'[id].scan_count = c + 1
                /\ IF (c + 1) \in MilestoneSet /\ c + 1 > m
                   THEN /\ locks'[id].last_scan_milestone = <<c + 1>>
                        /\ resp'.milestone = <<c + 1>>
                   ELSE /\ Coalesce(locks'[id].last_scan_milestone, 0) = m
                        /\ resp'.milestone = Null]_vars

C1_Witness ==
    /\ resp.op = "incrementScanCount"
    /\ resp.status = "ok"
    /\ resp.milestone = <<25>>
    /\ locks[resp.id].scan_count = 25
    /\ locks[resp.id].last_scan_milestone = <<25>>

\* C2: on a lock created fresh (count 0, no milestone), increments 1 to 9
\* return no milestone, the 10th returns 10, and increments 11 to 20 return
\* no milestone, so that 10 has been returned exactly once.
C2_FirstMilestoneOnce ==
    \A id \in DOMAIN locks :
       LET c == locks[id].scan_count
           last == resp.op = "incrementScanCount" /\ resp.id = id /\ resp.status = "ok"
       IN /\ c <= 9 => milestoneLog[id] = <<>>
          /\ (10 <= c /\ c <= 20) => milestoneLog[id] = <<10>>
          /\ (last /\ c = 10) => resp.milestone = <<10>>
          /\ (last /\ c # 10 /\ c <= 20) => resp.milestone = Null

C2_Witness ==
    \E id \in DOMAIN locks :
       /\ locks[id].scan_count = 20
       /\ milestoneLog[id] = <<10>>
       /\ resp = Resp("incrementScanCount", id, "ok", Null, 1)

\* C3: no step lowers a lock's stored last_scan_milestone (absent counts as
\* 0): after every write it is at least what was stored before the write.
C3_MilestoneNeverDecreases ==
    [][\A id \in DOMAIN locks :
          /\ id \in DOMAIN locks'
          /\ Coalesce(locks'[id].last_scan_milestone, 0)
                >= Coalesce(locks[id].last_scan_milestone, 0)]_vars

\* A milestone has been returned for the lock and the stored milestone is
\* back at 0
C3_Witness ==
    \E id \in DOMAIN locks :
       /\ milestoneLog[id] = <<10>>
       /\ locks[id].last_scan_milestone = <<0>>
       /\ resp = Resp("incrementScanCount", id, "ok", Null, 1)

\* C5: every lock's last_scan_milestone is at most its scan_count, and is
\* absent, 0 or a member of the milestone list.
C5_MilestoneWithinCount ==
    \A id \in DOMAIN locks :
       /\ Coalesce(locks[id].last_scan_milestone, 0) <= locks[id].scan_count
       /\ \/ locks[id].last_scan_milestone = Null
          \/ locks[id].last_scan_milestone = <<0>>
          \/ locks[id].last_scan_milestone[1] \in MilestoneSet

C5_Witness ==
    \E id \in DOMAIN locks :
       /\ locks[id].last_scan_milestone = <<25>>
       /\ locks[id].scan_count = 26

\* C6: for each lock, no milestone value is returned by more than one
\* incrementScanCount call.
C6_MilestoneReportedOnce ==
    \A id \in DOMAIN milestoneLog :
       \A i, j \in DOMAIN milestoneLog[id] :
          milestoneLog[id][i] = milestoneLog[id][j] => i = j

\* Two calls have returned milestone 10 for the same lock
C6_Witness ==
    \E id \in DOMAIN milestoneLog :
       /\ milestoneLog[id] = <<10, 10>>
       /\ locks[id].scan_count = 10

\* C4: no step writes a lock's scan_count lower than the value stored before
\* the step, whatever the operations and however they interleave.
C4_ScanCountNeverDecreases ==
    [][\A id \in DOMAIN locks :
          /\ id \in DOMAIN locks'
          /\ locks'[id].scan_count >= locks[id].scan_count]_vars

C4_Witness ==
    \E r \in Slots :
        /\ pc[r] = "scanWrite"
        /\ req[r].id \in DOMAIN locks
        /\ req[r].newScanCount < locks[req[r].id].scan_count

-----------------------------------------------------------------------------
(* Partial updates: claims *)

\* The columns of a row that a set of named columns leaves out
Others(row, named) == DOMAIN row \ named

\* Every column of `named` reads the same in both rows
SameOn(before, after, named) == \A k \in named : after[k] = before[k]

\* The bodies that name exactly one key
OneLockField == {d \in LockDataInputs : Cardinality(LockUpdateFields(d)) = 1}
OneMediaField ==
    {d \in MediaDataInputs \cup FlagOnlyInputs : Cardinality(MediaUpdateFields(d)) = 1}
OneAuthField == {m \in MetadataInputs : Cardinality(AuthUpdateFields(m)) = 1}
NoAuthField == {m \in MetadataInputs : AuthUpdateFields(m) = {}}

\* The step is the answer to a request of the kind `op`
Answers(op) == resp'.op = op

\* An empty update of a lock or of a stored media object is refused before any
\* write and leaves the table as it was
EmptyLockOrMediaRefused ==
    /\ Answers("lockUpdate") =>
          \A id \in UpdateLockIds, writeOk \in BOOLEAN :
              LockUpdate(id, NoLockData, writeOk) =>
                  /\ resp'.status = "NoFields"
                  /\ resp'.writes = 0
                  /\ locks' = locks
    /\ Answers("mediaUpdate") =>
          \A id \in DOMAIN media, fail \in FailInputs(NoMediaData) :
              MediaUpdate(id, NoMediaData, fail) =>
                  /\ resp'.status = "NoFields"
                  /\ resp'.writes = 0
                  /\ media' = media

LockReads(row, k, v) ==
    CASE k = "upgraded_storage" -> IntBoolean(row[k]) = v
      [] k = "user_id"          -> row[k] = <<v>>
      [] OTHER                  -> row[k] = v

MediaReads(row, k, v) ==
    CASE k = "is_main_picture" -> IntBoolean(row[k]) = v
      [] OTHER                 -> row[k] = v

AuthReads(row, k, v) ==
    CASE k = "last_login_at" -> row[k] = v
      [] OTHER               -> IntBoolean(row[k]) = v[1]

\* The step is the answer "ok" to a request of the kind `op` about row `id`:
\* every write of the request succeeded
AnswersOk(op, id) == resp'.op = op /\ resp'.status = "ok" /\ resp'.id = id

\* C8: after a successful update that names one field X with value V, the
\* row read back has X equal to V and every other column as before the
\* update; for locks, media objects and accounts.
C8_SingleFieldUpdate ==
    [][/\ \A id \in DOMAIN locks : AnswersOk("lockUpdate", id) =>
             \A d \in OneLockField :
                 LockUpdate(id, d, TRUE) =>
                     /\ \A k \in LockUpdateFields(d) : LockReads(locks'[id], k, d[k][1])
                     /\ SameOn(locks[id], locks'[id], Others(locks[id], LockUpdateFields(d)))
       /\ \A id \in DOMAIN media : AnswersOk("mediaUpdate", id) =>
             \A d \in OneMediaField :
                 MediaUpdate(id, d, "none") =>
                     /\ \A k \in MediaUpdateFields(d) : MediaReads(media'[id], k, d[k][1])
                     /\ SameOn(media[id], media'[id], Others(media[id], MediaUpdateFields(d)))
       /\ \A id \in DOMAIN users : AnswersOk("updateAuthMetadata", id) =>
             \A m \in OneAuthField :
                 UpdateAuthMetadata(id, m, TRUE) =>
                     /\ \A k \in AuthUpdateFields(m) : AuthReads(users'[id], k, m[k][1])
                     /\ SameOn(users[id], users'[id], Others(users[id], AuthUpdateFields(m)))]_vars

C8_Witness ==
    /\ resp = Resp("mediaUpdate", 2, "ok", Null, 1)
    /\ media[2].url = "https://imagedelivery.net/example9.jpg"
    /\ media[2].display_order = 2
    /\ media[2].file_name = <<"wedding_vows.mp4">>

\* An absent key leaves its column alone and an explicit null is stored as
\* NULL, in updates of locks and of media objects and in the seal toggle
NullIsWrittenForLockAndMedia ==
    /\ \A id \in DOMAIN locks : AnswersOk("lockUpdate", id) =>
          \A d \in LockDataInputs :
              LockUpdate(id, d, TRUE) =>
                  /\ SameOn(locks[id], locks'[id], Others(locks[id], LockUpdateFields(d)))
                  /\ d.seal_date = Def(Null) => locks'[id].seal_date = Null
    /\ \A id \in DOMAIN locks :
          (Answers("seal") /\ SealBoolean(locks[id].seal_date) /\ ToggleSeal(id, TRUE)) =>
              /\ resp'.status = "200"
              /\ locks'[id].seal_date = Null
              /\ SameOn(locks[id], locks'[id], Others(locks[id], {"seal_date"}))
    /\ \A id \in DOMAIN media : AnswersOk("mediaUpdate", id) =>
          \A d \in MediaDataInputs :
              MediaUpdate(id, d, "none") =>
                  /\ SameOn(media[id], media'[id], Others(media[id], MediaUpdateFields(d)))
                  /\ d.file_name = Def(Null) => media'[id].file_name = Null

C10_MainPictureMoves ==
    [][\A a \in DOMAIN media : AnswersOk("mediaUpdate", a) =>
          \A b \in DOMAIN media, d \in MediaDataInputs \cup FlagOnlyInputs :
              ( /\ a # b
                /\ media[a].lock_id = media[b].lock_id
                /\ media[b].is_main_picture = 1
                /\ SetsMainPicture(d)
                /\ MediaUpdate(a, d, "none") ) =>
                  /\ IntBoolean(media'[a].is_main_picture)
                  /\ ~IntBoolean(media'[b].is_main_picture)]_vars

C10_Witness ==
    /\ resp = Resp("mediaUpdate", 2, "ok", Null, 2)
    /\ media[2].is_main_picture = 1
    /\ media[1].is_main_picture = 0
    /\ media[1].lock_id = media[2].lock_id

-----------------------------------------------------------------------------
(* Main picture under interleaving: claims *)

\* The media objects of lock L flagged as main picture
MainPictures(L) == {i \in DOMAIN media : media[i].lock_id = L /\ media[i].is_main_picture = 1}

\* C11: in every state, between the steps of interleaved media create and
\* update calls included, at most one media object of a lock has
\* is_main_picture = 1.
C11_OneMainPicture ==
    \A L \in DOMAIN locks : Cardinality(MainPictures(L)) <= 1

\* Two media objects of lock 1 are main pictures and no request is in flight
C11_Witness ==
    /\ Cardinality(MainPictures(1)) = 2
    /\ \A r \in Slots : pc[r] = "idle"

-----------------------------------------------------------------------------
(* Rate limiter: claims *)

\* The key's window is open at instant t: it has an entry whose reset time
\* has not passed
WindowOpen(store, key, t) == key \in DOMAIN store /\ ~(t > store[key].resetTime)

\* The place of the request now handled among the requests of its key in the
\* key's window
PlaceInWindow(key) ==
    IF WindowOpen(rateLimitStore, key, now) THEN rateLimitStore[key].count + 1 ELSE 1

\* C12: under the api policy (60000 ms, 60 requests) the requests of one key
\* that come 1st to 60th in a window are passed to next(), the 61st is
\* answered 429, and a request that comes after the reset time has passed is
\* the 1st of a new window and is passed to next(); every request of the key
\* inside an open window counts one.
C12_ApiWindow ==
    [][\A headers \in HeaderInputs :
          LET key == DefaultKeyGenerator(headers) IN
          /\ RateLimit("api", headers) =>
                /\ PlaceInWindow(key) <= 60 => resp'.status = "next"
                /\ PlaceInWindow(key) = 61 => resp'.status = "429"
                /\ (key \in DOMAIN rateLimitStore /\ now > rateLimitStore[key].resetTime) =>
                       /\ resp'.status = "next"
                       /\ rateLimitStore'[key].count = 1
          /\ \A policy \in Policies :
                (RateLimit(policy, headers) /\ WindowOpen(rateLimitStore, key, now)) =>
                    rateLimitStore'[key].count = rateLimitStore[key].count + 1]_vars

C12_Witness ==
    /\ resp = Resp("api", 61, "429", Null, 0)
    /\ <<"apikey", "worker-key">> \in DOMAIN rateLimitStore
    /\ rateLimitStore[<<"apikey", "worker-key">>].count = 61
    /\ now > 60000

\* C13: a request is answered 429 exactly when the count of its key, this
\* request counted, is above maxRequests of the policy; it is passed to
\* next() exactly when it is not.
C13_RejectedIffExceeded ==
    [][\A policy \in Policies, headers \in HeaderInputs :
          LET key == DefaultKeyGenerator(headers) IN
          RateLimit(policy, headers) =>
              /\ resp'.status \in {"429", "next"}
              /\ resp'.status = "429" <=>
                    rateLimitStore'[key].count > RateLimiters[policy].maxRequests
              /\ resp'.status = "next" <=>
                    rateLimitStore'[key].count <= RateLimiters[policy].maxRequests]_vars

C13_Witness ==
    /\ resp = Resp("mediaUpload", 11, "429", Null, 0)
    /\ rateLimitStore[<<"apikey", "worker-key">>].count = 11

\* What a request of `key` under policy q would find at instant t: the
\* requests it may still make, and the reset time of its window (Null when
\* it would open a new one)
Allowance(store, key, t, q) ==
    IF WindowOpen(store, key, t)
    THEN IF store[key].count >= RateLimiters[q].maxRequests THEN 0
         ELSE RateLimiters[q].maxRequests - store[key].count
    ELSE RateLimiters[q].maxRequests

Deadline(store, key, t) == IF WindowOpen(store, key, t) THEN <<store[key].resetTime>> ELSE Null

\* C14: a request passed to next() under one policy leaves the key's
\* allowance and reset time under every other policy as they were.
C14_PoliciesIndependent ==
    [][\A p \in Policies, q \in Policies, headers \in HeaderInputs :
          LET key == DefaultKeyGenerator(headers) IN
          (p # q /\ RateLimit(p, headers) /\ resp'.status = "next") =>
              /\ Allowance(rateLimitStore', key, now', q) = Allowance(rateLimitStore, key, now, q)
              /\ Deadline(rateLimitStore', key, now') = Deadline(rateLimitStore, key, now)]_vars

\* Five requests of the key have been passed on, the last under api, and a
\* request under batch would now be answered 429
C14_Witness ==
    /\ resp = Resp("api", 5, "next", Null, 0)
    /\ Allowance(rateLimitStore, <<"apikey", "worker-key">>, now, "batch") = 0

-----------------------------------------------------------------------------
(* User routes: claims *)

\* The media objects of the locks in `owned`
MediaOf(table, owned) == {i \in DOMAIN table : table[i].lock_id \in owned}

\* C15: DELETE /users/:userId with deleteMedia true deletes the media objects
\* of the user's locks, then sets user_id of those locks to NULL, and only
\* then deletes the user row, the locks staying in their table; with
\* deleteMedia absent or false the media objects are kept.  At whatever
\* statement the handler stops, what comes later in that order has not
\* happened unless what comes before has.
C15_DeleteUserOrder ==
    [][Answers("deleteUser") =>
        \A userId \in DOMAIN users, deleteMedia \in BOOLEAN, okWrites \in 0 .. Len(SeedLocks) + 2 :
          DeleteUser(userId, deleteMedia, okWrites) =>
            LET owned == FindAllByUserId(locks, userId)
                detached == \A i \in owned : locks'[i].user_id = Null
                emptied == MediaOf(media', owned) = {}
            IN /\ DOMAIN locks' = DOMAIN locks
               /\ \A i \in DOMAIN locks :
                     SameOn(locks[i], locks'[i], Others(locks[i], {"user_id"}))
               /\ \A i \in DOMAIN locks \ owned : locks'[i] = locks[i]
               /\ \A i \in DOMAIN media \ MediaOf(media, owned) :
                     i \in DOMAIN media' /\ media'[i] = media[i]
               /\ ~deleteMedia => media' = media
               /\ (owned # {} /\ \E i \in owned : locks'[i].user_id = Null) =>
                     (detached /\ (deleteMedia => emptied))
               /\ userId \notin DOMAIN users' => (detached /\ (deleteMedia => emptied))
               /\ resp'.status = "200" <=> userId \notin DOMAIN users'
               /\ \A u \in DOMAIN users \ {userId} : u \in DOMAIN users' /\ users'[u] = users[u]]_vars

\* User 1, who owned both locks, has been deleted with deleteMedia: the
\* locks stay, without owner and without media objects
C15_Witness ==
    /\ resp = Resp("deleteUser", 1, "200", Null, 4)
    /\ 1 \notin DOMAIN users
    /\ DOMAIN locks = DOMAIN SeedLocks
    /\ \A i \in DOMAIN locks : locks[i].user_id = Null
    /\ media = EmptyTable

\* C16: no two accounts hold the same non-null email, and no two hold the
\* same non-null phone number.
C16_UniqueIdentifiers ==
    \A i \in DOMAIN users, j \in DOMAIN users :
        i # j =>
            /\ users[i].email = Null \/ users[i].email # users[j].email
            /\ users[i].phone_number = Null \/ users[i].phone_number # users[j].phone_number

\* POST /users/create has answered 201 and the new account holds the phone
\* number of account 1
C16_Witness ==
    /\ resp.op = "createUser" /\ resp.status = "201"
    /\ 1 \in DOMAIN users /\ resp.id \in DOMAIN users
    /\ users[resp.id].phone_number = users[1].phone_number
    /\ users[resp.id].email = <<"sam.roe@example.com">>

-----------------------------------------------------------------------------
(* Bulk creation of locks: claims *)

\* Every call of lockRepo.create succeeds
AllOk == [k \in FaultAt |-> "ok"]

\* The highest lock id, 0 for an empty table
HighestId == IF DOMAIN locks = {} THEN 0 ELSE GetLastLockId

\* C17: POST /locks/create/N, when the highest lock id is H and every
\* statement succeeds, creates N locks with the ids H+1 .. H+N, each named
\* "Memory Lock" with album title "Romeo & Juliet", leaves the other locks
\* as they are, and answers "Successfully created N locks (H+1 to H+N)".
C17_BulkIds ==
    [][(Answers("bulkCreate") /\ resp'.status = "200") =>
        \A param \in TotalLocksParams :
          (~InvalidTotalLocks(ParseInt(param)) /\ BulkCreate(param, "ok", AllOk)) =>
            LET N == ParseInt(param)[1]
                H == HighestId
            IN /\ DOMAIN locks' \ DOMAIN locks = (H + 1) .. (H + N)
               /\ \A i \in (H + 1) .. (H + N) :
                     /\ locks'[i].lock_name = "Memory Lock"
                     /\ locks'[i].album_title = "Romeo & Juliet"
                     /\ locks'[i].seal_date = Null /\ locks'[i].user_id = Null
                     /\ locks'[i].scan_count = 0
               /\ \A i \in DOMAIN locks : locks'[i] = locks[i]
               /\ resp'.message = [created |-> N, from |-> H + 1, to |-> H + N]]_vars

\* With lock 1 in the table, 101 locks have been created as 2 .. 102
C17_Witness ==
    /\ resp = BulkResp(2, "200", 101, [created |-> 101, from |-> 2, to |-> 102])
    /\ DOMAIN locks = 1 .. 102
    /\ locks[102].lock_name = "Memory Lock"
    /\ locks[102].album_title = "Romeo & Juliet"

-----------------------------------------------------------------------------
(* Album view: claims *)

\* The text is the decimal numeral of an integer
IsInteger(text) == text # <<>> /\ \A k \in DOMAIN text : IsDigit(text[k])

\* The lock an identifier names: the one its decoding names when it is an
\* obfuscated id, the one its number names when it is an integer, if any
NamedLock(identifier) ==
    LET named == IF DecodeId(identifier) # Null THEN DecodeId(identifier)
                 ELSE IF IsInteger(identifier) THEN <<ParseDigits(identifier, 1, 0)>>
                 ELSE Null
    IN IF named # Null /\ named[1] \in DOMAIN locks THEN named ELSE Null

\* GET /album with the obfuscated id of a lock, or with its integer id,
\* answers 200 with the payload of that lock
AlbumServesNamedLock ==
    [][Answers("album") =>
        \A identifier \in AlbumIdentifiers :
          (NamedLock(identifier) # Null /\ AlbumGet(identifier, "none")) =>
            /\ resp'.status = "200"
            /\ resp'.data = <<AlbumDto(NamedLock(identifier)[1],
                                      EncodeId(NamedLock(identifier)[1]))>>]_vars

\* C19: GET /album with the obfuscated id of an existing lock and with its
\* integer id answer with the same payload, that of the lock; an identifier
\* that is neither a decodable obfuscated id nor an integer, or that names
\* no lock, gets an error answer without payload.
C19_AlbumIdentifier ==
    [][Answers("album") =>
        \A identifier \in AlbumIdentifiers :
          AlbumGet(identifier, "none") =>
            IF NamedLock(identifier) # Null
            THEN /\ resp'.status = "200"
                 /\ resp'.data = <<AlbumDto(NamedLock(identifier)[1],
                                           EncodeId(NamedLock(identifier)[1]))>>
            ELSE /\ resp'.status \in {"400", "404"}
                 /\ resp'.data = Null]_vars

\* GET /album/1abc has been answered 200 with the album of lock 1
C19_Witness ==
    /\ resp.op = "album" /\ resp.id = <<"1", "a", "b", "c">>
    /\ resp.status = "200"
    /\ resp.data = <<AlbumDto(1, EncodeId(1))>>

-----------------------------------------------------------------------------
(* Worker API key: claims *)

\* The routes that are meant to be open: the health endpoints and the
\* album view GET /album/{identifier}
PublicRoute(method, path) == Route(method, path) \in {"health", "root", "album"}

\* C20: the handler of a route that is not public runs only for a request
\* whose Worker-API-Key header equals the configured key; in particular
\* the handlers of /albums/update-title and /albums/publish-changes never
\* run without it.
C20_KeyRequired ==
    (resp.op \notin {"none", "auth"}) =>
        \/ PublicRoute(request.method, request.path)
        \/ request.apiKey = Def(WORKER_API_KEY)

\* POST /albums/update-title without a Worker-API-Key header has set the
\* album title of lock 1
C20_Witness ==
    /\ request.method = "POST" /\ request.path = PathAlbumsUpdateTitle
    /\ request.apiKey = Undefined
    /\ resp = Resp("updateTitle", 1, "200", Null, 1)
    /\ locks[1].album_title = "Our Album"

-----------------------------------------------------------------------------
(* Scans in flight together: claims *)

\* C21: incrementScanCount reads the row and writes the count it computed
\* from it as two steps.  A call that read count c holds c + 1; its write
\* stores c + 1 whatever the row holds by then and succeeds; and a write
\* leaves another call that read the same c waiting with the same c + 1.
\* Two calls that both read c before either writes therefore both succeed
\* and leave c + 1.
C21_LostIncrement ==
    [][\A r \in Slots :
          /\ (pc[r] = "idle" /\ pc'[r] = "scanWrite") =>
                req'[r].newScanCount = locks[req'[r].id].scan_count + 1
          /\ (pc[r] = "scanWrite" /\ pc'[r] = "idle" /\ resp'.status = "ok") =>
                /\ locks'[req[r].id].scan_count = req[r].newScanCount
                /\ \A s \in Slots \ {r} :
                      (/\ pc[s] = "scanWrite"
                       /\ req[s].id = req[r].id
                       /\ req[s].newScanCount = req[r].newScanCount) =>
                          (pc'[s] = "scanWrite" /\ req'[s] = req[s])]_vars

\* Both calls read count 8 of lock 1; one has written 9 and succeeded, and
\* the other is about to write 9 again
C21_Witness ==
    \E r \in Slots :
        /\ pc[r] = "scanWrite" /\ req[r].id = 1
        /\ req[r].newScanCount = 9
        /\ locks[1].scan_count = 9
        /\ resp = Resp("incrementScanCount", 1, "ok", Null, 1)

-----------------------------------------------------------------------------
(* Absent rows: claims *)

-----------------------------------------------------------------------------
(* Failed write of a scan: claims *)

\* C23: when the UPDATE of incrementScanCount fails, the call ends with the
\* storage error after that one write attempt, returns no milestone, and
\* leaves scan_count and last_scan_milestone of every lock as they were; and
\* over calls that follow one another, failed ones included, no milestone is
\* returned twice for a lock.
C23_FailedWriteKeepsState ==
    /\ [][(Answers("incrementScanCount") /\ resp'.status = "StorageError") =>
             /\ resp'.milestone = Null
             /\ resp'.writes = 1
             /\ locks' = locks
             /\ milestoneLog' = milestoneLog]_vars
    /\ [](\A id \in DOMAIN milestoneLog :
             \A i, j \in DOMAIN milestoneLog[id] :
                milestoneLog[id][i] = milestoneLog[id][j] => i = j)
    /\ [][\A id \in DOMAIN locks :
             (AnswersOk("incrementScanCount", id) /\ Includes(SCAN_MILESTONES, locks'[id].scan_count)) =>
                 resp'.milestone = <<locks'[id].scan_count>>]_vars

\* The scan that would have brought a lock to 10 has failed: the count is 9
\* and no milestone has been returned
C23_Witness ==
    \E id \in DOMAIN locks :
        /\ resp = Resp("incrementScanCount", id, "StorageError", Null, 1)
        /\ locks[id].scan_count = 9
        /\ Coalesce(locks[id].last_scan_milestone, 0) = 0
        /\ milestoneLog[id] = <<>>

-----------------------------------------------------------------------------
(* Main picture of one lock only: claims *)

\* C24: an update that sets is_main_picture = true first clears the flag, and
\* only on the media objects whose lock_id is that of the object updated;
\* the object's own UPDATE comes after the clearing and writes that object
\* alone; media objects of other locks keep their flag and no step of an
\* update changes a lock_id.
C24_ClearsOwnLockOnly ==
    [][\A r \in Slots :
          /\ (pc[r] = "idle" /\ pc'[r] = "mediaWrite") =>
                (media' = media /\ ~SetsMainPicture(req'[r].mediaData))
          /\ (pc[r] = "idle" /\ pc'[r] = "mediaUnset") =>
                (media' = media /\ SetsMainPicture(req'[r].mediaData)
                 /\ req'[r].lock_id = media[req'[r].id].lock_id)
          /\ (pc[r] = "mediaUnset" /\ pc'[r] = "mediaWrite") =>
                \A i \in DOMAIN media :
                    IF media[i].lock_id = media[req[r].id].lock_id
                    THEN media'[i] = [media[i] EXCEPT !.is_main_picture = 0]
                    ELSE media'[i] = media[i]
          /\ (pc[r] = "mediaWrite" /\ pc'[r] = "idle") =>
                \A i \in DOMAIN media :
                    /\ media'[i].lock_id = media[i].lock_id
                    /\ i # req[r].id => media'[i] = media[i]]_vars

\* Media object 2 of lock 1 has been made the main picture: object 1 of the
\* same lock has lost the flag and object 3 of lock 2 has kept it
C24_Witness ==
    /\ resp = Resp("mediaUpdate", 2, "ok", Null, 2)
    /\ media[2].is_main_picture = 1 /\ media[2].lock_id = 1
    /\ media[1].is_main_picture = 0 /\ media[1].lock_id = 1
    /\ media[3].is_main_picture = 1 /\ media[3].lock_id = 2
    /\ \A r \in Slots : pc[r] = "idle"

-----------------------------------------------------------------------------
(* Fixed window and sweep: claims *)

Served(store, key, t, windowMs) ==
    [k \in DOMAIN store \cup {key} |->
        IF k = key THEN CountedEntry(store, key, t, windowMs) ELSE store[k]]

\* The instants from now on at which a later request is looked at
LaterInstants(store) ==
    {now, now + 1, now + 30000}
    \cup {t \in {store[k].resetTime : k \in DOMAIN store} : t >= now}
    \cup {t \in {store[k].resetTime + 1 : k \in DOMAIN store} : t >= now}

CallerKeys == {DefaultKeyGenerator(headers) : headers \in HeaderInputs}

\* The window lengths of the policies
WindowLengths == {RateLimiters[policy].windowMs : policy \in Policies}

\* Two stores in which a request of any key at any instant of T leaves the
\* same entry for the key; the answer under a policy is Exceeded of that
\* entry, so the request is answered alike as well
SameOutcomes(a, b, T) ==
    \A key \in CallerKeys, t \in T, w \in WindowLengths :
        CountedEntry(a, key, t, w) = CountedEntry(b, key, t, w)

\* C26: the sweep deletes only entries whose reset time lies before now and
\* leaves every other entry as it was; a later request of any key is counted
\* and answered after the sweep as it would have been without it, and so is
\* the request after that one.
C26_SweepKeepsOutcomes ==
    [][(now' = now /\ resp' = resp /\ rateLimitStore' # rateLimitStore /\ Sweep) =>
          /\ DOMAIN rateLimitStore' \subseteq DOMAIN rateLimitStore
          /\ \A k \in DOMAIN rateLimitStore :
                IF now > rateLimitStore[k].resetTime
                THEN k \notin DOMAIN rateLimitStore'
                ELSE k \in DOMAIN rateLimitStore' /\ rateLimitStore'[k] = rateLimitStore[k]
          /\ LET T == LaterInstants(rateLimitStore) IN
             /\ SameOutcomes(rateLimitStore', rateLimitStore, T)
             /\ \A key \in CallerKeys, t \in T, w \in WindowLengths :
                   SameOutcomes(Served(rateLimitStore', key, t, w),
                                Served(rateLimitStore, key, t, w),
                                {u \in T : u >= t})]_vars

\* The sweep has run: the key whose second request was the last one answered
\* has no entry any more, and the other key's window, still open, is as it
\* was
C26_Witness ==
    /\ DOMAIN rateLimitStore = {<<"apikey", "worker-key">>}
    /\ rateLimitStore[<<"apikey", "worker-key">>].count = 1
    /\ now <= rateLimitStore[<<"apikey", "worker-key">>].resetTime
    /\ resp.id = 2

-----------------------------------------------------------------------------
(* routes/mediaObjects.js: PATCH and DELETE /media-objects/:id *)

\* DELETE FROM media_objects WHERE id = ?
MediaDelete(table, id) == [i \in DOMAIN table \ {id} |-> table[i]]

\* The body of PATCH /media-objects/:id: the three keys the handler reads
PatchMediaData(body) ==
    [NoMediaData EXCEPT !.url = body.url,
                        !.display_order = body.displayOrder,
                        !.is_main_picture = body.isMainImage]

\* PATCH /media-objects/:id.  The catch block answers 500 whatever
\* mediaRepo.update has thrown.
PatchMediaObject(idParam, body, fail) ==
    /\ LET id == ParseInt(idParam) IN
       IF id = NaN
       THEN /\ resp' = Resp("patchMedia", 0, "400", Null, 0)
            /\ UNCHANGED media
       ELSE LET r == MediaUpdateResult(media, id[1], PatchMediaData(body), fail)
            IN /\ media' = r.table
               /\ resp' = Resp("patchMedia", id[1], RouteStatus(r.status), Null, r.writes)
    /\ UNCHANGED <<locks, users, mediaSeq, userSeq, milestoneLog, pc, req, limiterVars>>

\* DELETE /media-objects/:id.  ok is result.success of the DELETE, which
\* holds as well when the statement has matched no row.
DeleteMediaObject(idParam, ok) ==
    /\ LET id == ParseInt(idParam) IN
       IF id = NaN
       THEN /\ resp' = Resp("deleteMedia", 0, "400", Null, 0)
            /\ UNCHANGED media
       ELSE IF ~ok
       THEN /\ resp' = Resp("deleteMedia", id[1], "500", Null, 1)
            /\ UNCHANGED media
       ELSE /\ media' = MediaDelete(media, id[1])
            /\ resp' = Resp("deleteMedia", id[1], "200", Null, 1)
    /\ UNCHANGED <<locks, users, mediaSeq, userSeq, milestoneLog, pc, req, limiterVars>>

\* The :id parameters: the media objects of lock 1, an id no row has, and a
\* text that is no number
MediaIdParams == {<<"1">>, <<"2">>, <<"9">>, <<"x">>}

PatchBodies ==
    [ url : {Undefined, Def("https://imagedelivery.net/example9.jpg")},
      displayOrder : {Undefined, Def(5)},
      isMainImage : {Undefined, Def(TRUE)} ]

LockNameInputs == {"", "Our Lock"}

NextRoutes ==
    \/ \E lockId \in {1, AbsentLockId}, newName \in LockNameInputs, writeOk \in BOOLEAN :
          RenameLock(lockId, newName, writeOk)
    \/ \E idParam \in MediaIdParams, body \in PatchBodies :
          \E fail \in FailInputs(PatchMediaData(body)) : PatchMediaObject(idParam, body, fail)
    \/ \E idParam \in MediaIdParams, ok \in BOOLEAN : DeleteMediaObject(idParam, ok)

SpecRoutes == InitSeeded /\ [][NextRoutes]_vars

-----------------------------------------------------------------------------
(* Routes that name a row that is not there: claims *)

\* C27: PATCH /locks/name with the id of no lock, PATCH /media-objects/{id}
\* and DELETE /media-objects/{id} with the id of no media object are
\* answered 404 when no statement has failed.
C27_AbsentEntity404 ==
    [][/\ (Answers("name") /\ resp'.id \notin DOMAIN locks) =>
             \A newName \in LockNameInputs :
                 (newName # "" /\ RenameLock(resp'.id, newName, TRUE)) => resp'.status = "404"
       /\ (Answers("patchMedia") /\ resp'.status # "400" /\ resp'.id \notin DOMAIN media) =>
             \A idParam \in MediaIdParams, body \in PatchBodies :
                 PatchMediaObject(idParam, body, "none") => resp'.status = "404"
       /\ (Answers("deleteMedia") /\ resp'.status # "400" /\ resp'.id \notin DOMAIN media) =>
             \A idParam \in MediaIdParams :
                 DeleteMediaObject(idParam, TRUE) => resp'.status = "404"]_vars

\* DELETE /media-objects/9 has been answered 200 while the table, which has
\* no row 9, is as it was
C27_Witness ==
    /\ resp = Resp("deleteMedia", 9, "200", Null, 1)
    /\ media = SeedMedia

-----------------------------------------------------------------------------
(* POST /users/link-provider *)

\* UPDATE users SET auth_provider = ?, provider_id = ? WHERE id = ?
LinkProviderRow(row, authProvider, providerId) ==
    [row EXCEPT !.auth_provider = authProvider, !.provider_id = <<providerId>>]

\* POST /users/link-provider.  writeOk is result.success of the UPDATE.
LinkProvider(userId, authProvider, providerId, writeOk) ==
    /\ IF userId \notin DOMAIN users
       THEN /\ resp' = Resp("linkProvider", userId, "404", Null, 0)
            /\ UNCHANGED users
       ELSE IF ~writeOk
       THEN /\ resp' = Resp("linkProvider", userId, "500", Null, 1)
            /\ UNCHANGED users
       ELSE /\ users' = [users EXCEPT ![userId] = LinkProviderRow(@, authProvider, providerId)]
            /\ resp' = Resp("linkProvider", userId, "200", Null, 1)
    /\ UNCHANGED <<locks, media, mediaSeq, userSeq, milestoneLog, pc, req, limiterVars>>

\* The provider identities the requests name: the one account 2 holds and
\* ones no account holds
ProviderInputs == {<<"google", "google_123456">>, <<"google", "google_777">>,
                   <<"apple", "apple_001">>}

\* Sign-ups through a provider, with an email no account holds or none
ProviderUserData ==
    [ name         : {" Sam Roe "},
      email        : {Undefined, Def("sam.roe@example.com")},
      phoneNumber  : {Undefined},
      authProvider : {Def("google")},
      providerId   : {Def("google_123456"), Def("google_777")} ]

LinkUserIds == {1, 2, MaxUsers + 1}

NextProviders ==
    \/ \E userData \in ProviderUserData, insertOk \in BOOLEAN : CreateUser(userData, insertOk)
    \/ \E userId \in LinkUserIds, p \in ProviderInputs, writeOk \in BOOLEAN :
          LinkProvider(userId, p[1], p[2], writeOk)

SpecProviders == InitSeeded /\ [][NextProviders]_vars

-----------------------------------------------------------------------------
(* Provider identities: claims *)

\* C28: in every state no two accounts hold the same auth_provider together
\* with the same non-null provider_id.
C28_UniqueProviderIdentity ==
    \A i \in DOMAIN users, j \in DOMAIN users :
        (i # j /\ users[i].provider_id # Null) =>
            <<users[i].auth_provider, users[i].provider_id>>
               # <<users[j].auth_provider, users[j].provider_id>>

\* POST /users/link-provider has answered 200 and account 1 now holds the
\* provider identity of account 2
C28_Witness ==
    /\ resp = Resp("linkProvider", 1, "200", Null, 1)
    /\ users[1].auth_provider = "google" /\ users[1].provider_id = <<"google_123456">>
    /\ users[2] = SeedUsers[2]

-----------------------------------------------------------------------------
(* Failed write after the clearing: claims *)

\* C29: when an update that sets is_main_picture = true has cleared the
\* flags of the lock and its own UPDATE then fails, the call ends with the
\* storage error after two statements, no media object of the lock is the
\* main picture afterwards (the one that was is not restored), and nothing
\* else in the table has changed.
C29_NoRollback ==
    [][\A id \in DOMAIN media :
          (Answers("mediaUpdate") /\ resp'.id = id /\ resp'.status = "StorageError"
           /\ resp'.writes = 2) =>
              \A i \in DOMAIN media :
                  IF media[i].lock_id = media[id].lock_id
                  THEN media'[i] = [media[i] EXCEPT !.is_main_picture = 0]
                  ELSE media'[i] = media[i]]_vars

\* The update of media object 2 that was to make it the main picture has
\* failed at its own UPDATE: lock 1, whose main picture was object 1, has
\* none
C29_Witness ==
    /\ resp = Resp("mediaUpdate", 2, "StorageError", Null, 2)
    /\ media[1] = [SeedMedia[1] EXCEPT !.is_main_picture = 0]
    /\ media[2] = SeedMedia[2]
    /\ media[3] = SeedMedia[3]

-----------------------------------------------------------------------------
(* POST /locks/connect and DELETE /users/:userId in flight together: every
   await of the two handlers is a step *)

ConnectReq(userId, lockId) == [op |-> "connect", userId |-> userId, lockId |-> lockId]
DeleteUserReq(userId, deleteMedia) ==
    [op |-> "deleteUser", userId |-> userId, deleteMedia |-> deleteMedia]

\* The foreign key of locks.user_id, were it to take no action when the
\* user row is deleted
OnDeleteSetNull_NoAction(table, userId) == table

\* FOREIGN KEY (user_id) REFERENCES users(id) ON DELETE SET NULL: what the
\* deletion of the user row does to the locks table
OnDeleteSetNull(table, userId) ==
    [i \in DOMAIN table |->
        IF table[i].user_id = <<userId>> THEN [table[i] EXCEPT !.user_id = Null]
        ELSE table[i]]

\* connect: lockRepo.findById(lockId)
ConnectFindLock(r, userId, lockId) ==
    /\ pc[r] = "idle"
    /\ IF LockFindById(lockId) = Null
       THEN /\ resp' = Resp("connect", lockId, "404", Null, 0)
            /\ UNCHANGED <<pc, req>>
       ELSE /\ pc' = [pc EXCEPT ![r] = "connectFindUser"]
            /\ req' = [req EXCEPT ![r] = ConnectReq(userId, lockId)]
            /\ UNCHANGED resp
    /\ UNCHANGED <<locks, media, users, mediaSeq, userSeq, milestoneLog, limiterVars>>

\* connect: userRepo.findById(dto.userId)
ConnectFindUser(r) ==
    /\ pc[r] = "connectFindUser"
    /\ IF req[r].userId \notin DOMAIN users
       THEN /\ resp' = Resp("connect", req[r].lockId, "404", Null, 0)
            /\ pc' = [pc EXCEPT ![r] = "idle"]
            /\ req' = [req EXCEPT ![r] = NoReq]
       ELSE /\ pc' = [pc EXCEPT ![r] = "connectWrite"]
            /\ UNCHANGED <<resp, req>>
    /\ UNCHANGED <<locks, media, users, mediaSeq, userSeq, milestoneLog, limiterVars>>

\* connect: lockRepo.update(lockId, { user_id: dto.userId }) and the answer
ConnectWrite(r, writeOk) ==
    /\ pc[r] = "connectWrite"
    /\ LET u == LockUpdateResult(locks, users, req[r].lockId,
                    [NoLockData EXCEPT !.user_id = Def(req[r].userId)], writeOk)
       IN /\ locks' = u.table
          /\ resp' = Resp("connect", req[r].lockId, RouteStatus(u.status), Null, u.writes)
    /\ pc' = [pc EXCEPT ![r] = "idle"]
    /\ req' = [req EXCEPT ![r] = NoReq]
    /\ UNCHANGED <<media, users, mediaSeq, userSeq, milestoneLog, limiterVars>>

\* delete user: userRepo.findById(userId)
DeleteUserFind(r, userId, deleteMedia) ==
    /\ pc[r] = "idle"
    /\ IF userId \notin DOMAIN users
       THEN /\ resp' = Resp("deleteUser", userId, "404", Null, 0)
            /\ UNCHANGED <<pc, req>>
       ELSE /\ pc' = [pc EXCEPT ![r] = IF deleteMedia THEN "deleteUserMedia"
                                       ELSE "deleteUserClear"]
            /\ req' = [req EXCEPT ![r] = DeleteUserReq(userId, deleteMedia)]
            /\ UNCHANGED resp
    /\ UNCHANGED <<locks, media, users, mediaSeq, userSeq, milestoneLog, limiterVars>>

\* delete user: findAllByUserId and the deleteByLockId of each lock found,
\* taken together; ok is whether all of them succeed
DeleteUserMedia(r, ok) ==
    /\ pc[r] = "deleteUserMedia"
    /\ IF ok
       THEN /\ media' = [i \in {j \in DOMAIN media :
                                  media[j].lock_id \notin FindAllByUserId(locks, req[r].userId)}
                            |-> media[i]]
            /\ pc' = [pc EXCEPT ![r] = "deleteUserClear"]
            /\ UNCHANGED <<resp, req>>
       ELSE /\ resp' = Resp("deleteUser", req[r].userId, "500", Null, 1)
            /\ pc' = [pc EXCEPT ![r] = "idle"]
            /\ req' = [req EXCEPT ![r] = NoReq]
            /\ UNCHANGED media
    /\ UNCHANGED <<locks, users, mediaSeq, userSeq, milestoneLog, limiterVars>>

\* delete user: lockRepo.clearUserAssociation(userId)
DeleteUserClear(r, ok) ==
    /\ pc[r] = "deleteUserClear"
    /\ IF ok
       THEN /\ locks' = ClearUserAssociation(locks, req[r].userId)
            /\ pc' = [pc EXCEPT ![r] = "deleteUserDelete"]
            /\ UNCHANGED <<resp, req>>
       ELSE /\ resp' = Resp("deleteUser", req[r].userId, "500", Null, 1)
            /\ pc' = [pc EXCEPT ![r] = "idle"]
            /\ req' = [req EXCEPT ![r] = NoReq]
            /\ UNCHANGED locks
    /\ UNCHANGED <<media, users, mediaSeq, userSeq, milestoneLog, limiterVars>>

\* delete user: userRepo.delete(userId) and the answer.  The DELETE carries
\* out the foreign key's action on the locks table.
DeleteUserDelete(r, ok) ==
    /\ pc[r] = "deleteUserDelete"
    /\ IF ok
       THEN /\ users' = UserDeleteRow(users, req[r].userId)
            /\ locks' = OnDeleteSetNull(locks, req[r].userId)
            /\ resp' = Resp("deleteUser", req[r].userId, "200", Null, 2)
       ELSE /\ resp' = Resp("deleteUser", req[r].userId, "500", Null, 2)
            /\ UNCHANGED <<users, locks>>
    /\ pc' = [pc EXCEPT ![r] = "idle"]
    /\ req' = [req EXCEPT ![r] = NoReq]
    /\ UNCHANGED <<media, mediaSeq, userSeq, milestoneLog, limiterVars>>

\* The two routes are called for account 1; connect names the lock of
\* account 2 or a lock that is not there
OwnerUserIds == {1}
OwnerLockIds == {2, AbsentLockId}

NextOwner ==
    \/ \E r \in Slots, userId \in OwnerUserIds, lockId \in OwnerLockIds :
          ConnectFindLock(r, userId, lockId)
    \/ \E r \in Slots : ConnectFindUser(r)
    \/ \E r \in Slots, writeOk \in BOOLEAN : ConnectWrite(r, writeOk)
    \/ \E r \in Slots, userId \in OwnerUserIds, deleteMedia \in BOOLEAN :
          DeleteUserFind(r, userId, deleteMedia)
    \/ \E r \in Slots, ok \in BOOLEAN : DeleteUserMedia(r, ok)
    \/ \E r \in Slots, ok \in BOOLEAN : DeleteUserClear(r, ok)
    \/ \E r \in Slots, ok \in BOOLEAN : DeleteUserDelete(r, ok)

SpecOwner == InitSeeded /\ [][NextOwner]_vars

-----------------------------------------------------------------------------
(* Owner of a lock: claims *)

\* C30: in every state, between the steps of interleaved connect and delete
\* user calls included, user_id of each lock is null or the id of a row of
\* users.
C30_OwnerExists ==
    \A i \in DOMAIN locks :
        locks[i].user_id = Null \/ locks[i].user_id[1] \in DOMAIN users

\* The deletion of account 1 has detached its locks and is about to delete
\* the row, and a connect call that had found account 1 has since made it
\* the owner of lock 2
C30_Witness ==
    /\ \E r \in Slots : pc[r] = "deleteUserDelete" /\ req[r].userId = 1
    /\ 1 \in DOMAIN users
    /\ locks[2].user_id = <<1>>
    /\ locks[1].user_id = Null
    /\ resp = Resp("connect", 2, "200", Null, 1)

====
